---- MODULE Spec2Model ----
(***************************************************************************)
(* House energy monitor: the polling scheduler (scripts/logger.py), the    *)
(* single-meter reader (p1_meter_reader.py) and the read side that turns   *)
(* stored cumulative counters into usage (app/pages/device.py, home.py).   *)
(*                                                                         *)
(* The MQTT logger (logger.py) and the power monitor page are modelled     *)
(* too.                                                                    *)
(*                                                                         *)
(* Ten specifications share this module:                                   *)
(*   SpecDiff   the storage pipeline of one device and metric, followed by *)
(*              the read-side counter diff;                                *)
(*   SpecCost   the device page's query, diff, resample and cost columns;  *)
(*   SpecPoll   poll_device alone, for every retry budget;                 *)
(*   Spec       the two long-running programs (Init picks which one runs); *)
(*   SpecLive   the rolling window of the two live power pages;            *)
(*   SpecConfig the scheduler's loads of the configuration file;           *)
(*   SpecTime   the clock of the two polling loops;                        *)
(*   SpecOverlap overlapping calls of the live page's callback;            *)
(*   SpecForm   the timers of the power monitor page and its form;         *)
(*   SpecMqtt   the MQTT logger's message callback.                        *)
(*                                                                         *)
(* Energy values are fixed-point integers (one unit = one display digit);  *)
(* floating-point rounding is not modelled.                                *)
(***************************************************************************)
EXTENDS Integers, Sequences, FiniteSets, TLC

----------------------------------------------------------------------------
(* Bounds of the model *)

\* largest cumulative counter value a device reports
MaxVal == 3
\* number of samples stored for the read-side series
MaxLen == 3
\* number of poll cycles a run of Spec starts
MaxCycles == 2
\* largest retries argument SpecPoll passes to poll_device
MaxRetries == 4

\* retries=3, main's argument to poll_device
Retries == 3
\* connect_db's max_attempts
P1MaxAttempts == 3

----------------------------------------------------------------------------
(* Values *)

\* A nullable number (Python None, SQL NULL, pandas NaN) is a sequence of
\* length 0; a number v is the sequence <<v>>.
NaN == <<>>
Num(v) == <<v>>
IsNaN(c) == c = <<>>
Val(c) == c[1]

Max(a, b) == IF a >= b THEN a ELSE b
Min(a, b) == IF a <= b THEN a ELSE b

RECURSIVE SumSeq(_)
SumSeq(s) == IF Len(s) = 0 THEN 0 ELSE Val(s[1]) + SumSeq(Tail(s))

\* The metric kinds of a device descriptor ("supports").
Metrics == {"import_kwh", "export_kwh", "gas_m3"}

\* One field of a device's JSON answer: absent, a number, JSON null, or
\* something float() rejects.
Absent == [kind |-> "absent", v |-> 0]
JsonNull == [kind |-> "null", v |-> 0]
JsonText == [kind |-> "text", v |-> 0]
JsonNum(v) == [kind |-> "num", v |-> v]

VARIABLES
    \* ---- read side (SpecDiff) ----
    reported,   \* what the device answered for the metric, poll by poll
    stored,     \* the readings rows of the device, in timestamp order
    view,       \* which read-side function ran last: "none", "device", "home"
    rows,       \* the rows its query returned
    deltas      \* the import_kwh column it computed

diffVars == <<reported, stored, view, rows, deltas>>

VARIABLES
    \* ---- the running program (Spec, SpecPoll) ----
    prog,         \* "logger" (scripts/logger.py), "p1" (p1_meter_reader.py),
                  \* "poll" (poll_device alone), "none"
    pc,           \* where the program is
    once,         \* args.once
    RUNNING,      \* logger.py's global flag
    conn,         \* "none", "open", "closed" (conn.closed is set: the client
                  \* closed it, or a statement found the server gone)
    txn,          \* "idle" or "aborted": the open transaction of p1's connection
    config,       \* the configuration in force: device id -> descriptor
    todo,         \* the devices the running for loop still has to visit
    dev,          \* the device poll_device was last called for
    retries,      \* poll_device's retries argument
    data,         \* the answer poll_device parsed last
    result,       \* what poll_device returned last
    devicesTable, \* device ids with a row in the devices table
    readings,     \* the readings table
    now,          \* the clock, in ticks
    exitReason,   \* why the process ended, "" while it runs
    connAttempts, \* connection attempts made by the running connect call
    \* ---- history, for the properties ----
    calls,        \* SpecPoll: requests sent by the poll_device call
    devK,         \* SpecPoll: how many requests the device failed first
    upsertTried,  \* devices upsert_device was called for
    startDevices, \* devices of the configuration read at startup
    cycles,       \* cycles started
    everPolled,   \* a request was sent to some device
    polled,       \* devices a request was sent to in the running cycle
    lastInsert    \* outcome of the insert of the current device: "none",
                  \* "ok", "duplicate", "error"

ctlVars == <<prog, pc, once, RUNNING, exitReason>>
dbVars == <<conn, txn, devicesTable, readings, connAttempts>>
cycleVars == <<config, todo, now, cycles, startDevices, upsertTried>>
pollVars == <<dev, retries, data, result, calls, devK, everPolled, polled>>
schedVars == <<ctlVars, dbVars, cycleVars, pollVars, lastInsert>>

VARIABLES
    \* ---- the live power pages (SpecLive) ----
    page,              \* "dash" (app/pages/live_power.py), "pm"
                       \* (power_monitor.py), "none"
    observationWindow, \* the window, in ticks (GRAPH_TIME_RANGE_MINUTES)
    pollingFrequency,  \* ticks between two firings of the page's timer
                       \* (POLLING_INTERVAL_SECONDS)
    maxPoints,         \* power_monitor's const, computed when the page loads
    fire,              \* when the timer fired last
    lpc,               \* where the running _update_live_data call is
    existing_data,     \* its State argument
    live_df,           \* its local data frame df
    cutoff_clock,      \* the clock as the last round read it after its fetch
    live_store,        \* the data of the dcc.Store "live-power-store-data"
    powerData,         \* power_monitor's array
    figure,            \* the traces _render_live_graph drew last
    \* ---- history, for the properties ----
    rounds,            \* firings of the timer
    roundsDone,        \* firings whose callback has finished
    answered,          \* devices that answered in the last round
    renderedAt         \* where the _update_live_data call was when
                       \* _render_live_graph ran last

VARIABLES
    \* ---- the cost figures of the device page (SpecCost, SpecDiff) ----
    page_supports, \* "supports" of the device fetch_data is called for
    TARIFFS,       \* the tariffs of the page's configuration
    view_selected, \* the view picked in the page's dropdown
    frame          \* the resampled frame fetch_data returned last

costVars == <<page_supports, TARIFFS, view_selected, frame>>

VARIABLES
    \* ---- the loading of the configuration (SpecConfig) ----
    config_file,   \* what is at config_path
    environ,       \* which of DB_USER, DB_PASSWORD the environment sets
    loaded         \* what the last load_config call gave

cfgVars == <<config_file, environ, loaded>>

VARIABLES
    \* ---- the timing of the two polling loops (SpecTime) ----
    tick_start,    \* logger.py's tick_start; for p1_meter_reader, which has
                   \* no such variable, when the iteration began
    poll_interval, \* poll_interval (logger.py 190), INTERVAL_SECONDS
    elapsed,       \* the clock minus tick_start when time.sleep is called
    slept          \* the argument of the last time.sleep call

timeVars == <<tick_start, poll_interval, elapsed, slept>>

VARIABLES
    \* ---- what poll_device logged (SpecPoll) ----
    log_records    \* the records of the running poll_device call, in order

VARIABLES
    \* ---- overlapping calls of _update_live_data (SpecOverlap) ----
    in_flight      \* the calls that have not returned yet: when each was
                   \* fired and the State argument it was given

VARIABLES
    \* ---- the timers of the power monitor page (SpecForm) ----
    timers,        \* the due times of the pending setTimeout(updateChart)
    submits        \* how often the form was submitted

formVars == <<timers, submits>>

VARIABLES
    \* ---- the MQTT logger (SpecMqtt) ----
    mqtt_conns,    \* connections on_message opened that nothing has closed
    mqtt_readings, \* device ids of the rows on_message committed, in order
    mqtt_handled,  \* messages on_message has returned from
    mqtt_log       \* level of the last record on_message logged, "" at first

mqttVars == <<mqtt_conns, mqtt_readings, mqtt_handled, mqtt_log>>

auxVars == <<timeVars, log_records, in_flight, formVars, mqttVars>>

liveVars == <<page, observationWindow, pollingFrequency, maxPoints, fire, lpc,
              existing_data, live_df, cutoff_clock, live_store, powerData, figure,
              rounds, roundsDone, answered, renderedAt>>
vars == <<schedVars, diffVars, liveVars, costVars, cfgVars, auxVars>>

----------------------------------------------------------------------------
(* poll_device's parsing of one answer *)

\* float(data.get(field, 0)): an absent field reads as 0; JSON null and text
\* make float() raise.
FieldRaises(f) == f.kind \in {"null", "text"}
FieldFloat(f) == IF f.kind = "num" THEN f.v ELSE 0

\* The value poll_device returns for one metric: None when the descriptor
\* does not support it.
MetricValue(f, metric, supports) ==
    IF metric \in supports THEN Num(FieldFloat(f)) ELSE NaN

----------------------------------------------------------------------------
(* pandas column operations used by the read side *)

\* a diff that subtracts the first row instead of the previous one
diff_from_first(col) ==
    [i \in 1..Len(col) |->
        IF i = 1 \/ IsNaN(col[i]) \/ IsNaN(col[1])
        THEN NaN
        ELSE Num(Val(col[i]) - Val(col[1]))]

diff(col) ==
    [i \in 1..Len(col) |->
        IF i = 1 \/ IsNaN(col[i]) \/ IsNaN(col[i-1])
        THEN NaN
        ELSE Num(Val(col[i]) - Val(col[i-1]))]

\* a clip that lets every value through
clip_lower_none(col, lo) == col

clip_lower(col, lo) ==
    [i \in 1..Len(col) |->
        IF IsNaN(col[i]) THEN NaN
        ELSE IF Val(col[i]) < lo THEN Num(lo) ELSE col[i]]

fillna(col, x) ==
    [i \in 1..Len(col) |-> IF IsNaN(col[i]) THEN Num(x) ELSE col[i]]

\* df[c].diff().clip(lower=0).fillna(0)
CounterDiff(col) == fillna(clip_lower(diff(col), 0), 0)

\* SQL: a comparison with NULL is not true.
SqlGt0(c) == ~IsNaN(c) /\ Val(c) > 0

\* device.py 72: total_import_kwh > 0 OR total_export_kwh > 0 OR
\* total_gas_m3 > 0
PositiveCounter(r) == SqlGt0(r.imp) \/ SqlGt0(r.exp) \/ SqlGt0(r.gas)

\* device.py: rows of [start, end_) with some positive counter, by timestamp
DeviceQuery(tbl, start, end_) ==
    SelectSeq(tbl, LAMBDA r :
        /\ r.ts >= start /\ r.ts < end_
        /\ PositiveCounter(r))

\* home.py: rows from start on, COALESCE(total_import_kwh, 0)
HomeQuery(tbl, start) ==
    LET sel == SelectSeq(tbl, LAMBDA r : r.ts >= start)
    IN  [i \in 1..Len(sel) |->
            [sel[i] EXCEPT !.imp = IF IsNaN(@) THEN Num(0) ELSE @]]

Column(rs) == [i \in 1..Len(rs) |-> rs[i].imp]

\* ticks in one resampling interval (RESAMPLE_INTERVAL; the model gives the
\* day, week, month and year of the other views the same number of ticks)
BucketTicks == 2
\* rows of the readings table in a run of SpecCost
CostRows == 3

Views == {"Detailed", "Daily", "Weekly", "Monthly", "Yearly"}

\* pandas resample: the bins of '10min' and 'D' are closed and labelled on
\* the left, those of 'W', 'M' and 'Y' on the right
ClosedLeft(v) == v \in {"Detailed", "Daily"}

BinLabel(ts, v) ==
    IF ClosedLeft(v) THEN (ts \div BucketTicks) * BucketTicks
    ELSE ((ts + BucketTicks - 1) \div BucketTicks) * BucketTicks

\* the defaults of device.py 114-116, in cents per unit
DefaultTariffs ==
    [import_eur_per_kwh |-> 40, export_eur_per_kwh |-> 4,
     gas_eur_per_m3 |-> 80]

\* CONFIG.get("tariffs", {}): no tariffs configured, or some
TariffSets ==
    { DefaultTariffs,
      [import_eur_per_kwh |-> 1, export_eur_per_kwh |-> 2,
       gas_eur_per_m3 |-> 3] }

NoFrame == <<>>

ColumnOf(rs, c) == [i \in 1..Len(rs) |-> rs[i][c]]
ZeroColumn(n) == [i \in 1..n |-> Num(0)]
Negated(col) == [i \in 1..Len(col) |-> Num(0 - Val(col[i]))]

\* the diffs with the export column left positive
incremental_values_unsigned(df, sup) ==
    [import_kwh |-> IF "import_kwh" \in sup
                    THEN CounterDiff(ColumnOf(df, "imp"))
                    ELSE ZeroColumn(Len(df)),
     export_kwh |-> IF "export_kwh" \in sup
                    THEN CounterDiff(ColumnOf(df, "exp"))
                    ELSE ZeroColumn(Len(df)),
     gas_m3 |-> IF "gas_m3" \in sup /\ \E i \in 1..Len(df) : ~IsNaN(df[i].gas)
                THEN CounterDiff(ColumnOf(df, "gas"))
                ELSE ZeroColumn(Len(df))]

\* fetch_data 85-99: a column the device does not support is not selected
\* and its usage is 0; export usage is negative
incremental_values(df, sup) ==
    [import_kwh |-> IF "import_kwh" \in sup
                    THEN CounterDiff(ColumnOf(df, "imp"))
                    ELSE ZeroColumn(Len(df)),
     export_kwh |-> IF "export_kwh" \in sup
                    THEN Negated(CounterDiff(ColumnOf(df, "exp")))
                    ELSE ZeroColumn(Len(df)),
     gas_m3 |-> IF "gas_m3" \in sup /\ \E i \in 1..Len(df) : ~IsNaN(df[i].gas)
                THEN CounterDiff(ColumnOf(df, "gas"))
                ELSE ZeroColumn(Len(df))]

\* fetch_data 101-116: resample(...).sum() gives one row for every bin from
\* the first row's to the last row's, then the cost columns are computed
resample_sum(df, u, v, t) ==
    LET labels == {BinLabel(df[i].ts, v) : i \in 1..Len(df)}
        lo == CHOOSE l \in labels : \A m \in labels : l <= m
        hi == CHOOSE l \in labels : \A m \in labels : m <= l
        SumIn(col, l) ==
            SumSeq([i \in 1..Len(df) |->
                       IF BinLabel(df[i].ts, v) = l THEN col[i] ELSE Num(0)])
    IN  [k \in 1..((hi - lo) \div BucketTicks + 1) |->
            LET l == lo + (k - 1) * BucketTicks
                import_kwh == SumIn(u.import_kwh, l)
                export_kwh == SumIn(u.export_kwh, l)
                gas_m3 == SumIn(u.gas_m3, l)
            IN  [timestamp |-> l,
                 import_kwh |-> import_kwh,
                 export_kwh |-> export_kwh,
                 gas_m3 |-> gas_m3,
                 import_cost |-> import_kwh * t.import_eur_per_kwh,
                 export_cost |-> export_kwh * t.export_eur_per_kwh,
                 gas_cost |-> gas_m3 * t.gas_eur_per_m3]]

\* fetch_data 79-119 on the rows the query returned
FrameOf(df, sup, v, t) ==
    IF df = <<>> THEN <<>>
    ELSE resample_sum(df, incremental_values(df, sup), v, t)

----------------------------------------------------------------------------
(* Configuration, device answers and the store, for Spec and SpecPoll *)

\* device ids of the shipped configuration, in the order of its devices object
DeviceIds == {"main_meter", "kwh_meter"}
DeviceOrder == <<"main_meter", "kwh_meter">>

\* The device descriptors the model enumerates: a complete one, an inactive
\* one, one without "ip", one with an empty "supports".
Descriptors ==
    { [ip |-> TRUE, active |-> TRUE, supports |-> {"import_kwh"}],
      [ip |-> TRUE, active |-> FALSE, supports |-> {"import_kwh"}],
      [ip |-> FALSE, active |-> TRUE, supports |-> {"import_kwh"}],
      [ip |-> TRUE, active |-> TRUE, supports |-> {}] }

\* config.get("devices", {}): any subset of the devices, each with any
\* descriptor
Configs == UNION {[S -> Descriptors] : S \in SUBSET DeviceIds}

\* devices.items(), in file order
DevicesOf(cfg) == SelectSeq(DeviceOrder, LAMBDA d : d \in DOMAIN cfg)

----------------------------------------------------------------------------
(* utils/config.py: load_config *)

\* the keys of the database section
DbKeys == {"host", "port", "name", "user", "password"}

\* What is at config_path: no file, a file that cannot be read, text that
\* is no JSON, or a JSON value. Of a JSON object the model keeps the shape
\* of its "database" member ("absent" when there is none), the keys of a
\* database object and the "devices" member.
File(kind, top, shape, keys, devices) ==
    [kind |-> kind, top |-> top, shape |-> shape, keys |-> keys,
     devices |-> devices]

NoFile == File("missing", "none", "absent", {}, <<>>)

FileDevices ==
    { <<>>,
      [d \in {"main_meter"} |->
          [ip |-> TRUE, active |-> TRUE, supports |-> {"import_kwh"}]] }

ConfigFiles ==
    {File(k, "none", "absent", {}, <<>>) :
        k \in {"missing", "unreadable", "invalid_json"}}
    \cup {File("json", t, "absent", {}, <<>>) :
            t \in {"null", "number", "string", "array"}}
    \cup {File("json", "object", sh, {}, d) :
            sh \in {"absent", "null", "number", "string", "array"},
            d \in FileDevices}
    \cup {File("json", "object", "object", ks, d) :
            ks \in SUBSET DbKeys, d \in FileDevices}

Environments == SUBSET {"DB_USER", "DB_PASSWORD"}

\* os.getenv(var, fallback): where the value comes from
Getenv(env, var, fallback) == IF var \in env THEN "env" ELSE fallback

\* the database section of the three except clauses and of line 26-32; each
\* key is mapped to where its value comes from
DefaultDatabase(env) ==
    [k \in DbKeys |->
        IF k = "user" THEN Getenv(env, "DB_USER", "default")
        ELSE IF k = "password" THEN Getenv(env, "DB_PASSWORD", "default")
        ELSE "default"]

\* config["database"].get(k, default)
DbGet(f, k) == IF k \in f.keys THEN "file" ELSE "default"

\* load_config 18-38, the body of the try: the exception it raises ("" when
\* it returns) and the configuration it returns
load_config_try(f, env) ==
    LET Raises(e) == [exc |-> e, database |-> <<>>, devices |-> <<>>]
    IN  IF f.kind = "missing" THEN Raises("FileNotFoundError")
        ELSE IF f.kind = "unreadable" THEN Raises("PermissionError")
        ELSE IF f.kind = "invalid_json" THEN Raises("JSONDecodeError")
        \* line 24, 26: "database" not in config, config["database"] = ...
        ELSE IF f.top # "object" THEN Raises("TypeError")
        ELSE IF f.shape = "absent"
        THEN [exc |-> "", database |-> DefaultDatabase(env),
              devices |-> f.devices]
        \* line 34: config["database"].get
        ELSE IF f.shape # "object" THEN Raises("AttributeError")
        ELSE [exc |-> "",
              database |->
                  [k \in f.keys \cup {"user", "password", "host", "port",
                                      "name"} |->
                      IF k = "user" THEN Getenv(env, "DB_USER", DbGet(f, k))
                      ELSE IF k = "password"
                      THEN Getenv(env, "DB_PASSWORD", DbGet(f, k))
                      ELSE DbGet(f, k)],
              devices |-> f.devices]

Loaded(raised, handler, database, devices) ==
    [raised |-> raised, handler |-> handler, database |-> database,
     devices |-> devices]

NotLoaded == Loaded("", "none", <<>>, <<>>)

\* load_config without its last except clause
load_config_two_handlers(f, env) ==
    LET t == load_config_try(f, env)
    IN  IF t.exc = "" THEN Loaded("", "", t.database, t.devices)
        ELSE IF t.exc \in {"FileNotFoundError", "JSONDecodeError"}
        THEN Loaded("", t.exc, DefaultDatabase(env), <<>>)
        ELSE Loaded(t.exc, "", <<>>, <<>>)

\* load_config 17-72: what escapes it, the except clause that ran, and the
\* configuration returned
load_config(f, env) ==
    LET t == load_config_try(f, env)
    IN  IF t.exc = "" THEN Loaded("", "", t.database, t.devices)
        ELSE IF t.exc \in {"FileNotFoundError", "JSONDecodeError"}
        THEN Loaded("", t.exc, DefaultDatabase(env), <<>>)
        ELSE Loaded("", "Exception", DefaultDatabase(env), <<>>)

\* An answer to one request: the request or the JSON decoding failed, or a
\* JSON object came back. The answers enumerated carry at most the import
\* counter.
NoData == [http |-> "none", imp |-> Absent]
HttpError == [http |-> "error", imp |-> Absent]
HttpOk(f) == [http |-> "ok", imp |-> f]
Fields == {Absent, JsonNull, JsonText, JsonNum(0), JsonNum(1)}
Answers == {HttpError} \cup {HttpOk(f) : f \in Fields}

\* data.get(<field of metric>)
FieldOf(d, metric) == IF metric = "import_kwh" THEN d.imp ELSE Absent

\* Lines 143-148 of poll_device raise on this answer.
AttemptRaises(d, desc) ==
    \/ d.http = "error"
    \/ \E m \in desc.supports : FieldRaises(FieldOf(d, m))

\* The answers poll_device parses without raising.
GoodAnswers(desc) == {d \in Answers : ~AttemptRaises(d, desc)}

\* poll_device's two return values; ok tells which return statement ran and
\* is not visible to main.
Returned(d, desc) ==
    [ok |-> TRUE,
     import_kwh |-> MetricValue(FieldOf(d, "import_kwh"), "import_kwh", desc.supports),
     export_kwh |-> MetricValue(FieldOf(d, "export_kwh"), "export_kwh", desc.supports),
     gas_m3 |-> MetricValue(FieldOf(d, "gas_m3"), "gas_m3", desc.supports)]
AllRetriesFailed ==
    [ok |-> FALSE, import_kwh |-> NaN, export_kwh |-> NaN, gas_m3 |-> NaN]

\* a record poll_device hands to log: its level and the attempt number its
\* message carries (the number of attempts, in the ERROR record)
LogRecord(level, attempt) == [level |-> level, attempt |-> attempt]

\* the record with extra={"device_id": device_id}
WithDevice(e, d) ==
    [level |-> e.level, attempt |-> e.attempt, device_id |-> d]

\* poll_device 141-160 against a device that fails its first k requests and
\* then answers d: the for loop from `attempt` on. Yields what is returned,
\* the number of requests sent, and the answer parsed (none on failure).
\* a loop that gives up one attempt early
RECURSIVE poll_loop_one_short(_, _, _, _, _)
poll_loop_one_short(desc, n, attempt, k, d) ==
    IF attempt >= n
    THEN [result |-> AllRetriesFailed, calls |-> attempt - 1, data |-> NoData,
          events |-> <<LogRecord("ERROR", n)>>]
    ELSE IF attempt <= k
         THEN LET rest == poll_loop_one_short(desc, n, attempt + 1, k, d)
              IN  [rest EXCEPT
                     !.events = <<LogRecord("WARNING", attempt)>> \o @]
         ELSE [result |-> Returned(d, desc), calls |-> attempt, data |-> d,
               events |-> <<>>]

\* events: the log.warning call of every failed attempt (151-154) and the
\* log.error call after the loop (156-159)
RECURSIVE poll_loop(_, _, _, _, _)
poll_loop(desc, n, attempt, k, d) ==
    IF attempt > n
    THEN [result |-> AllRetriesFailed, calls |-> attempt - 1, data |-> NoData,
          events |-> <<LogRecord("ERROR", n)>>]
    ELSE IF attempt <= k
         THEN LET rest == poll_loop(desc, n, attempt + 1, k, d)
              IN  [rest EXCEPT
                     !.events = <<LogRecord("WARNING", attempt)>> \o @]
         ELSE [result |-> Returned(d, desc), calls |-> attempt, data |-> d,
               events |-> <<>>]

\* Every way one poll_device call can end.
PollOutcomes(desc, n) ==
    {poll_loop(desc, n, 1, k, d) : k \in 0..n, d \in GoodAnswers(desc)}

\* a test that lets every poll result through
HasValueAlways(r) == TRUE

\* main line 197
HasValue(r) ==
    ~IsNaN(r.import_kwh) \/ ~IsNaN(r.export_kwh) \/ ~IsNaN(r.gas_m3)

\* The row an INSERT adds to tbl: id is the table's SERIAL key (only the
\* ids of the rows that made it into the table are counted).
Reading(tbl, d, t, r) ==
    [id |-> Cardinality(tbl) + 1, device_id |-> d, timestamp |-> t,
     imp |-> r.import_kwh, exp |-> r.export_kwh, gas |-> r.gas_m3]

\* The readings table as the user guide creates it: device_id REFERENCES
\* devices(device_id); id is the only key.
readings_device_fk(tbl, d) == d \in tbl

SchedIdle ==
    /\ prog = "none" /\ pc = "idle" /\ once = FALSE /\ RUNNING = TRUE
    /\ exitReason = "" /\ conn = "none" /\ txn = "idle"
    /\ devicesTable = {} /\ readings = {} /\ connAttempts = 0
    /\ config = <<>> /\ todo = <<>> /\ now = 0 /\ cycles = 0
    /\ startDevices = {} /\ upsertTried = {}
    /\ dev = "main_meter" /\ retries = Retries
    /\ data = NoData /\ result = AllRetriesFailed
    /\ calls = 0 /\ devK = 0 /\ everPolled = FALSE /\ lastInsert = "none"
    /\ polled = {}

LiveIdle ==
    /\ page = "none" /\ observationWindow = 0 /\ pollingFrequency = 0
    /\ maxPoints = 0 /\ fire = 0 /\ lpc = "idle"
    /\ existing_data = <<>> /\ live_df = <<>> /\ cutoff_clock = 0
    /\ live_store = <<>> /\ powerData = <<>> /\ figure = <<>>
    /\ rounds = 0 /\ roundsDone = 0 /\ answered = {}
    /\ renderedAt = "never"

TimeIdle ==
    /\ tick_start = 0 /\ poll_interval = 0 /\ elapsed = 0 /\ slept = 0

LogIdle == log_records = <<>>

OverlapIdle == in_flight = {}

FormIdle == timers = <<>> /\ submits = 0

MqttIdle ==
    /\ mqtt_conns = 0 /\ mqtt_readings = <<>>
    /\ mqtt_handled = 0 /\ mqtt_log = ""

AuxIdle == TimeIdle /\ LogIdle /\ OverlapIdle /\ FormIdle /\ MqttIdle

CfgIdle ==
    /\ config_file = NoFile
    /\ environ = {}
    /\ loaded = NotLoaded

CostIdle ==
    /\ page_supports = {}
    /\ TARIFFS = DefaultTariffs
    /\ view_selected = "Detailed"
    /\ frame = NoFrame

DiffIdle ==
    /\ reported = <<>>
    /\ stored = <<>>
    /\ view = "none"
    /\ rows = <<>>
    /\ deltas = <<>>

----------------------------------------------------------------------------
(* SpecDiff: one device supporting import_kwh, polled and stored, then read *)

DiffSupports == {"import_kwh"}

InitDiff ==
    /\ DiffIdle
    /\ LiveIdle
    /\ CfgIdle
    /\ AuxIdle
    /\ page_supports = DiffSupports
    /\ TARIFFS = DefaultTariffs
    /\ view_selected = "Detailed"
    /\ frame = NoFrame
    /\ SchedIdle

\* A successful poll of the device followed by main's insert: the answer
\* carries the counter or lacks the field; the row gets the next timestamp.
StoreSample ==
    /\ Len(stored) < MaxLen
    /\ \E f \in {Absent} \cup {JsonNum(v) : v \in 0..MaxVal} :
        LET import_kwh == MetricValue(f, "import_kwh", DiffSupports)
            export_kwh == MetricValue(f, "export_kwh", DiffSupports)
            gas_m3 == MetricValue(f, "gas_m3", DiffSupports)
        IN  /\ ~IsNaN(import_kwh) \/ ~IsNaN(export_kwh) \/ ~IsNaN(gas_m3)
            /\ reported' = Append(reported, f)
            /\ stored' = Append(stored,
                    [ts |-> Len(stored) + 1, imp |-> import_kwh,
                     exp |-> export_kwh, gas |-> gas_m3])
    /\ UNCHANGED <<liveVars, cfgVars, auxVars>>
    /\ UNCHANGED costVars
    /\ UNCHANGED <<view, rows, deltas, schedVars>>

\* device.py fetch_data: query a half-open range, diff the counters,
\* resample for the view and compute the cost columns
fetch_data ==
    /\ \E start \in 1..(Len(stored) + 1) : \E end_ \in start..(Len(stored) + 1) :
        LET df == DeviceQuery(stored, start, end_)
        IN  /\ rows' = df
            /\ deltas' = CounterDiff(Column(df))
            /\ frame' = FrameOf(df, page_supports, view_selected, TARIFFS)
    /\ view' = "device"
    /\ UNCHANGED <<liveVars, cfgVars, auxVars>>
    /\ UNCHANGED <<reported, stored, page_supports, TARIFFS, view_selected,
                   schedVars>>

\* home.py get_summary_chart: query from start on, diff the import column
get_summary_chart ==
    /\ \E start \in 1..(Len(stored) + 1) :
        LET df == HomeQuery(stored, start)
        IN  /\ rows' = df
            /\ deltas' = CounterDiff(Column(df))
    /\ view' = "home"
    /\ UNCHANGED <<liveVars, cfgVars, auxVars>>
    /\ UNCHANGED costVars
    /\ UNCHANGED <<reported, stored, schedVars>>

NextDiff == StoreSample \/ fetch_data \/ get_summary_chart

SpecDiff == InitDiff /\ [][NextDiff]_vars

----------------------------------------------------------------------------
(* SpecCost: fetch_data over every small readings table of one device *)

\* what the readings table holds for a metric of a device with these
\* supports: NULL, or a counter that stands or moves by one
CounterValues(metric, sup) ==
    IF metric \in sup THEN {Num(0), Num(1)} ELSE {NaN}

\* the "supports" lists of the shipped configuration (configuration.py
\* 27-45)
SupportSets ==
    { {"import_kwh", "export_kwh", "gas_m3"}, {"import_kwh", "export_kwh"} }

InitCost ==
    /\ SchedIdle
    /\ LiveIdle
    /\ CfgIdle
    /\ AuxIdle
    /\ page_supports \in SupportSets
    /\ TARIFFS \in TariffSets
    /\ view_selected \in Views
    /\ \E f \in [1..CostRows ->
                    [imp : CounterValues("import_kwh", page_supports),
                     exp : CounterValues("export_kwh", page_supports),
                     gas : CounterValues("gas_m3", page_supports)]] :
        stored = [i \in 1..CostRows |->
                    [ts |-> i, imp |-> f[i].imp, exp |-> f[i].exp,
                     gas |-> f[i].gas]]
    /\ reported = <<>>
    /\ view = "none"
    /\ rows = <<>>
    /\ deltas = <<>>
    /\ frame = NoFrame

\* the page is drawn once
fetch_data_once == view = "none" /\ fetch_data

NextCost == fetch_data_once

SpecCost == InitCost /\ [][NextCost]_vars

----------------------------------------------------------------------------
(* Claims about the counter diff *)

NonDecreasing(col) ==
    \A i \in 1..Len(col) : \A j \in i..Len(col) : Val(col[i]) <= Val(col[j])

\* C4: for a non-decreasing series of cumulative values fed to the diff, the
\* deltas returned sum to the last value minus the first.
C4_SumOfDeltas ==
    (view # "none" /\ Len(rows) > 0 /\ NonDecreasing(Column(rows)))
        => SumSeq(deltas) = Val(rows[Len(rows)].imp) - Val(rows[1].imp)

C4_Witness ==
    /\ view = "device"
    /\ Len(rows) = 3
    /\ Val(rows[1].imp) < Val(rows[2].imp)
    /\ Val(rows[2].imp) < Val(rows[3].imp)
    /\ SumSeq(deltas) = 2

\* C5: a value lower than its predecessor gets delta 0, the value after it
\* gets max(0, next - reset value), and no delta is negative.
C5_ResetRebaseline ==
    view # "none" =>
        /\ Len(deltas) = Len(rows)
        /\ \A i \in 1..Len(rows) : Val(deltas[i]) >= 0
        /\ \A i \in 2..Len(rows) :
            Val(rows[i].imp) < Val(rows[i-1].imp) =>
                /\ Val(deltas[i]) = 0
                /\ i < Len(rows) =>
                    Val(deltas[i+1]) =
                        Max(0, Val(rows[i+1].imp) - Val(rows[i].imp))

\* the reset of the scenario, scaled: 3, 1, 2 gives 0, 0, 1
C5_Witness ==
    /\ view = "device"
    /\ Len(rows) = 3
    /\ Val(rows[1].imp) = 3 /\ Val(rows[2].imp) = 1 /\ Val(rows[3].imp) = 2
    /\ deltas = <<Num(0), Num(0), Num(1)>>

\* the sum of the import deltas fetch_data computes for the range [a, b)
RangeSum(a, b) == SumSeq(CounterDiff(Column(DeviceQuery(stored, a, b))))

\* C29: fetch_data has computed the deltas of a range [a, c) of a stored
\* non-decreasing series; for every b that splits the range, the deltas it
\* computes for [a, b) and for [b, c) add up to the same sum.
C29_DeltasCompose ==
    (view = "device" /\ Len(rows) > 0 /\ NonDecreasing(Column(stored))) =>
        LET a == rows[1].ts
            c == rows[Len(rows)].ts + 1
        IN  \A b \in a..c : RangeSum(a, b) + RangeSum(b, c) = SumSeq(deltas)

\* The increase the device really reported at poll i: the difference to the
\* latest earlier poll that carried the metric, 0 when there is none or the
\* poll itself lacks the metric.
TrueIncrease(i) ==
    LET earlier == {j \in 1..(i-1) : reported[j].kind = "num"}
    IN  IF reported[i].kind # "num" \/ earlier = {} THEN 0
        ELSE LET p == CHOOSE j \in earlier : \A k \in earlier : k <= j
             IN  Max(0, reported[i].v - reported[p].v)

\* C6: the first row of a query has delta 0, and no delta exceeds the true
\* increase between two consecutive values the device really reported.
C6_NoSpuriousDelta ==
    view # "none" =>
        /\ Len(deltas) > 0 => Val(deltas[1]) = 0
        /\ \A p \in 2..Len(rows) :
            Val(deltas[p]) <= TrueIncrease(rows[p].ts)

----------------------------------------------------------------------------
(* scripts/logger.py *)

Alive == pc # "stopped"

\* main 169-176: the configuration is read, the connection opens
get_db_conn ==
    /\ prog = "logger" /\ pc = "start"
    /\ conn' = "open"
    /\ connAttempts' = 1
    /\ todo' = DevicesOf(config)
    /\ pc' = "upsert"
    /\ UNCHANGED <<liveVars, cfgVars, auxVars>>
    /\ UNCHANGED costVars
    /\ UNCHANGED <<polled, prog, once, RUNNING, exitReason, txn, devicesTable,
                   readings, config, now, cycles, startDevices, upsertTried,
                   dev, retries, data, result, calls, devK, everPolled,
                   lastInsert, diffVars>>

\* a startup that goes on without a connection
get_db_conn_failed_goes_on ==
    /\ prog = "logger" /\ pc = "start"
    /\ connAttempts' = 1
    /\ todo' = DevicesOf(config)
    /\ pc' = "upsert"
    /\ UNCHANGED <<liveVars, cfgVars, auxVars>>
    /\ UNCHANGED costVars
    /\ UNCHANGED <<polled, prog, once, RUNNING, exitReason, conn, txn, devicesTable,
                   readings, config, now, cycles, startDevices, upsertTried,
                   dev, retries, data, result, calls, devK, everPolled,
                   lastInsert, diffVars>>

\* get_db_conn 93-95: the one connection attempt fails, sys.exit(1)
get_db_conn_failed ==
    /\ prog = "logger" /\ pc = "start"
    /\ connAttempts' = 1
    /\ pc' = "stopped"
    /\ exitReason' = "db_startup"
    /\ UNCHANGED <<liveVars, cfgVars, auxVars>>
    /\ UNCHANGED costVars
    /\ UNCHANGED <<polled, prog, once, RUNNING, conn, txn, devicesTable, readings,
                   config, todo, now, cycles, startDevices, upsertTried, dev,
                   retries, data, result, calls, devK, everPolled,
                   lastInsert, diffVars>>

\* main 179-181 with upsert_device: the row is written
upsert_device ==
    /\ prog = "logger" /\ pc = "upsert" /\ todo # <<>>
    /\ conn = "open"
    /\ upsertTried' = upsertTried \cup {Head(todo)}
    /\ devicesTable' = devicesTable \cup {Head(todo)}
    /\ todo' = Tail(todo)
    /\ UNCHANGED <<liveVars, cfgVars, auxVars>>
    /\ UNCHANGED costVars
    /\ UNCHANGED <<polled, prog, pc, once, RUNNING, exitReason, conn, txn, readings,
                   connAttempts, config, now, cycles, startDevices, dev,
                   retries, data, result, calls, devK, everPolled,
                   lastInsert, diffVars>>

\* upsert_device 121-122: the statement raises (a store error, or the server
\* is gone, which closes the connection); the error is logged
upsert_device_error ==
    /\ prog = "logger" /\ pc = "upsert" /\ todo # <<>>
    /\ upsertTried' = upsertTried \cup {Head(todo)}
    /\ \E c \in (IF conn = "open" THEN {"open", "closed"} ELSE {"closed"}) :
        conn' = c
    /\ todo' = Tail(todo)
    /\ UNCHANGED <<liveVars, cfgVars, auxVars>>
    /\ UNCHANGED costVars
    /\ UNCHANGED <<polled, prog, pc, once, RUNNING, exitReason, txn, devicesTable,
                   readings, connAttempts, config, now, cycles, startDevices,
                   dev, retries, data, result, calls, devK, everPolled,
                   lastInsert, diffVars>>

main_upserts_done ==
    /\ prog = "logger" /\ pc = "upsert" /\ todo = <<>>
    /\ pc' = "loop"
    /\ UNCHANGED <<liveVars, cfgVars, auxVars>>
    /\ UNCHANGED costVars
    /\ UNCHANGED <<polled, prog, once, RUNNING, exitReason, conn, txn, devicesTable,
                   readings, connAttempts, config, todo, now, cycles,
                   startDevices, upsertTried, dev, retries, data, result,
                   calls, devK, everPolled, lastInsert, diffVars>>

\* a loop end that leaves the connection as it is
main_loop_exit_keeps_conn ==
    /\ prog = "logger" /\ pc = "loop" /\ ~RUNNING
    /\ pc' = "stopped"
    /\ exitReason' = "signal"
    /\ UNCHANGED <<liveVars, cfgVars, auxVars>>
    /\ UNCHANGED costVars
    /\ UNCHANGED <<polled, prog, once, RUNNING, conn, txn, devicesTable,
                   readings, connAttempts, config, todo, now, cycles,
                   startDevices, upsertTried, dev, retries, data, result,
                   calls, devK, everPolled, lastInsert, diffVars>>

\* main 183, 206-207: RUNNING is false, the loop ends, conn.close()
main_loop_exit ==
    /\ prog = "logger" /\ pc = "loop" /\ ~RUNNING
    /\ pc' = "stopped"
    /\ exitReason' = "signal"
    /\ conn' = "closed"
    /\ UNCHANGED <<liveVars, cfgVars, auxVars>>
    /\ UNCHANGED costVars
    /\ UNCHANGED <<polled, prog, once, RUNNING, txn, devicesTable, readings,
                   connAttempts, config, todo, now, cycles, startDevices,
                   upsertTried, dev, retries, data, result, calls, devK,
                   everPolled, lastInsert, diffVars>>

\* main 184-192: tick_start, reload of the configuration, conn.cursor()
main_cycle_start ==
    /\ prog = "logger" /\ pc = "loop" /\ RUNNING
    /\ cycles < MaxCycles
    /\ conn # "closed"
    /\ cycles' = cycles + 1
    /\ \E c \in Configs :
        /\ config' = c
        /\ todo' = DevicesOf(c)
    /\ pc' = "cycle"
    /\ polled' = {}
    /\ UNCHANGED <<liveVars, cfgVars, auxVars>>
    /\ UNCHANGED costVars
    /\ UNCHANGED <<prog, once, RUNNING, exitReason, conn, txn, devicesTable,
                   readings, connAttempts, now, startDevices, upsertTried,
                   dev, retries, data, result, calls, devK, everPolled,
                   lastInsert, diffVars>>

\* main 192: conn.cursor() on a closed connection raises InterfaceError,
\* which only the finally clause sees
main_cursor_raises ==
    /\ prog = "logger" /\ pc = "loop" /\ RUNNING
    /\ cycles < MaxCycles
    /\ conn = "closed"
    /\ \E c \in Configs : config' = c
    /\ pc' = "stopped"
    /\ exitReason' = "conn_closed"
    /\ polled' = {}
    /\ UNCHANGED <<liveVars, cfgVars, auxVars>>
    /\ UNCHANGED costVars
    /\ UNCHANGED <<prog, once, RUNNING, conn, txn, devicesTable, readings,
                   connAttempts, todo, now, cycles, startDevices,
                   upsertTried, dev, retries, data, result, calls, devK,
                   everPolled, lastInsert, diffVars>>

\* main 194-195
main_skip_inactive ==
    /\ prog = "logger" /\ pc = "cycle" /\ todo # <<>>
    /\ ~config[Head(todo)].active
    /\ todo' = Tail(todo)
    /\ UNCHANGED <<liveVars, cfgVars, auxVars>>
    /\ UNCHANGED costVars
    /\ UNCHANGED <<polled, prog, pc, once, RUNNING, exitReason, conn, txn,
                   devicesTable, readings, connAttempts, config, now, cycles,
                   startDevices, upsertTried, dev, retries, data, result,
                   calls, devK, everPolled, lastInsert, diffVars>>

\* poll_device 140: meta['ip'] raises KeyError outside every try of
\* poll_device and main; the finally clause closes the connection
poll_device_keyerror ==
    /\ prog \in {"logger", "poll"} /\ pc = "cycle" /\ todo # <<>>
    /\ config[Head(todo)].active
    /\ ~config[Head(todo)].ip
    /\ pc' = "stopped"
    /\ exitReason' = "device_error"
    /\ conn' = IF prog = "logger" THEN "closed" ELSE conn
    /\ UNCHANGED <<liveVars, cfgVars, auxVars>>
    /\ UNCHANGED costVars
    /\ UNCHANGED <<polled, prog, once, RUNNING, txn, devicesTable, readings,
                   connAttempts, config, todo, now, cycles, startDevices,
                   upsertTried, dev, retries, data, result, calls, devK,
                   everPolled, lastInsert, diffVars>>

\* main 196-197 reaches poll_device's loop for the next device
CanPoll ==
    /\ prog = "logger" /\ pc = "cycle" /\ todo # <<>>
    /\ config[Head(todo)].active
    /\ config[Head(todo)].ip

\* main 196-197: poll_device returns None, None, None (every attempt failed,
\* or the descriptor supports no metric); nothing is inserted
main_no_reading ==
    /\ CanPoll
    /\ \E o \in PollOutcomes(config[Head(todo)], retries) :
        /\ ~HasValue(o.result)
        /\ data' = o.data
        /\ result' = o.result
    /\ dev' = Head(todo)
    /\ everPolled' = TRUE
    /\ lastInsert' = "none"
    /\ todo' = Tail(todo)
    /\ polled' = polled \cup {Head(todo)}
    /\ UNCHANGED <<liveVars, cfgVars, auxVars>>
    /\ UNCHANGED costVars
    /\ UNCHANGED <<prog, pc, once, RUNNING, exitReason, conn, txn,
                   devicesTable, readings, connAttempts, config, now, cycles,
                   startDevices, upsertTried, retries, calls, devK, diffVars>>

\* main 196-198, insert_reading 127-133: the poll returns a value, the row is
\* written at NOW() (the connection is in autocommit mode, main 176)
insert_reading ==
    /\ CanPoll
    /\ conn = "open"
    /\ readings_device_fk(devicesTable, Head(todo))
    /\ \E o \in PollOutcomes(config[Head(todo)], retries) :
        /\ HasValue(o.result)
        /\ data' = o.data
        /\ result' = o.result
        /\ readings' = readings \cup {Reading(readings, Head(todo), now, o.result)}
    /\ dev' = Head(todo)
    /\ everPolled' = TRUE
    /\ lastInsert' = "ok"
    /\ todo' = Tail(todo)
    /\ polled' = polled \cup {Head(todo)}
    /\ UNCHANGED <<liveVars, cfgVars, auxVars>>
    /\ UNCHANGED costVars
    /\ UNCHANGED <<prog, pc, once, RUNNING, exitReason, conn, txn,
                   devicesTable, connAttempts, config, now, cycles,
                   startDevices, upsertTried, retries, calls, devK, diffVars>>

\* insert_reading 134-135: the statement raises (the device has no row in
\* devices, some other store error, or the server is gone, which closes the
\* connection); the error is logged
insert_reading_error ==
    /\ CanPoll
    /\ \E o \in PollOutcomes(config[Head(todo)], retries) :
        /\ HasValue(o.result)
        /\ data' = o.data
        /\ result' = o.result
    /\ \E c \in (IF conn = "open" THEN {"open", "closed"} ELSE {"closed"}) :
        conn' = c
    /\ dev' = Head(todo)
    /\ everPolled' = TRUE
    /\ lastInsert' = "error"
    /\ todo' = Tail(todo)
    /\ polled' = polled \cup {Head(todo)}
    /\ UNCHANGED <<liveVars, cfgVars, auxVars>>
    /\ UNCHANGED costVars
    /\ UNCHANGED <<prog, pc, once, RUNNING, exitReason, txn, devicesTable,
                   readings, connAttempts, config, now, cycles, startDevices,
                   upsertTried, retries, calls, devK, diffVars>>

\* main 200-202, 206-207: --once
main_once_done ==
    /\ prog = "logger" /\ pc = "cycle" /\ todo = <<>>
    /\ once
    /\ pc' = "stopped"
    /\ exitReason' = "once"
    /\ conn' = "closed"
    /\ dev' = "main_meter"
    /\ data' = NoData
    /\ result' = AllRetriesFailed
    /\ lastInsert' = "none"
    /\ UNCHANGED <<liveVars, cfgVars, auxVars>>
    /\ UNCHANGED costVars
    /\ UNCHANGED <<polled, prog, once, RUNNING, txn, devicesTable, readings,
                   connAttempts, config, todo, now, cycles, startDevices,
                   upsertTried, retries, calls, devK, everPolled, diffVars>>

\* a cycle end that sleeps also in --once mode
main_cycle_done_ignores_once ==
    /\ prog = "logger" /\ pc = "cycle" /\ todo = <<>>
    /\ pc' = "sleep"
    /\ dev' = "main_meter"
    /\ data' = NoData
    /\ result' = AllRetriesFailed
    /\ lastInsert' = "none"
    /\ UNCHANGED <<liveVars, cfgVars, auxVars>>
    /\ UNCHANGED costVars
    /\ UNCHANGED <<polled, prog, once, RUNNING, exitReason, conn, txn,
                   devicesTable, readings, connAttempts, config, todo, now,
                   cycles, startDevices, upsertTried, retries, calls, devK,
                   everPolled, diffVars>>

\* main 203: the cycle is over, time.sleep begins
main_cycle_done ==
    /\ prog = "logger" /\ pc = "cycle" /\ todo = <<>>
    /\ ~once
    /\ pc' = "sleep"
    /\ dev' = "main_meter"
    /\ data' = NoData
    /\ result' = AllRetriesFailed
    /\ lastInsert' = "none"
    /\ UNCHANGED <<liveVars, cfgVars, auxVars>>
    /\ UNCHANGED costVars
    /\ UNCHANGED <<polled, prog, once, RUNNING, exitReason, conn, txn,
                   devicesTable, readings, connAttempts, config, todo, now,
                   cycles, startDevices, upsertTried, retries, calls, devK,
                   everPolled, diffVars>>

\* main 203: time.sleep returns; the clock has moved on by a tick, or has
\* not (a short interval, a clock set back)
main_sleep ==
    /\ prog = "logger" /\ pc = "sleep"
    /\ \E t \in {now, now + 1} : now' = t
    /\ pc' = "loop"
    /\ UNCHANGED <<liveVars, cfgVars, auxVars>>
    /\ UNCHANGED costVars
    /\ UNCHANGED <<polled, prog, once, RUNNING, exitReason, conn, txn, devicesTable,
                   readings, connAttempts, config, todo, cycles,
                   startDevices, upsertTried, dev, retries, data, result,
                   calls, devK, everPolled, lastInsert, diffVars>>

\* _handle_sigterm 26-28: SIGINT or SIGTERM arrives
handle_sigterm ==
    /\ prog = "logger" /\ Alive
    /\ RUNNING
    /\ RUNNING' = FALSE
    /\ UNCHANGED <<liveVars, cfgVars, auxVars>>
    /\ UNCHANGED costVars
    /\ UNCHANGED <<polled, prog, pc, once, exitReason, conn, txn, devicesTable,
                   readings, connAttempts, config, todo, now, cycles,
                   startDevices, upsertTried, dev, retries, data, result,
                   calls, devK, everPolled, lastInsert, diffVars>>

LoggerNext ==
    \/ get_db_conn \/ get_db_conn_failed
    \/ upsert_device \/ upsert_device_error \/ main_upserts_done
    \/ main_loop_exit \/ main_cycle_start \/ main_cursor_raises
    \/ main_skip_inactive \/ poll_device_keyerror
    \/ main_no_reading \/ insert_reading
    \/ insert_reading_error
    \/ main_once_done \/ main_cycle_done \/ main_sleep
    \/ handle_sigterm

----------------------------------------------------------------------------
(* SpecPoll: poll_device called once, for every retry budget *)

\* poll_device called for the device, up to its return
poll_device ==
    /\ prog = "poll" /\ pc = "cycle" /\ todo # <<>>
    /\ config[Head(todo)].ip
    /\ \E k \in 0..retries : \E d \in GoodAnswers(config[Head(todo)]) :
        LET o == poll_loop(config[Head(todo)], retries, 1, k, d)
        IN  /\ devK' = k
            /\ calls' = o.calls
            /\ data' = o.data
            /\ result' = o.result
            /\ log_records' =
                [i \in 1..Len(o.events) |-> WithDevice(o.events[i], Head(todo))]
    /\ dev' = Head(todo)
    /\ everPolled' = TRUE
    /\ pc' = "polled"
    /\ polled' = polled \cup {Head(todo)}
    /\ UNCHANGED <<liveVars, cfgVars, timeVars, in_flight, formVars,
                   mqttVars>>
    /\ UNCHANGED costVars
    /\ UNCHANGED <<prog, once, RUNNING, exitReason, conn, txn, devicesTable,
                   readings, connAttempts, config, todo, now, cycles,
                   startDevices, upsertTried, retries, lastInsert, diffVars>>

InitPoll ==
    /\ DiffIdle
    /\ LiveIdle
    /\ CfgIdle
    /\ AuxIdle
    /\ CostIdle
    /\ prog = "poll" /\ pc = "cycle" /\ once = FALSE /\ RUNNING = TRUE
    /\ exitReason = "" /\ conn = "none" /\ txn = "idle"
    /\ devicesTable = {} /\ readings = {} /\ connAttempts = 0
    /\ config \in [{"main_meter"} -> {d \in Descriptors : d.active}]
    /\ todo = <<"main_meter">> /\ now = 0 /\ cycles = 0
    /\ startDevices = {} /\ upsertTried = {}
    /\ dev = "main_meter" /\ retries \in 1..MaxRetries
    /\ data = NoData /\ result = AllRetriesFailed
    /\ calls = 0 /\ devK = 0 /\ everPolled = FALSE /\ lastInsert = "none"
    /\ polled = {}

NextPoll == poll_device_keyerror \/ poll_device

SpecPoll == InitPoll /\ [][NextPoll]_vars

\* C1: poll_device sends exactly min(k+1, retries) requests to a device that
\* fails its first k requests, and returns a sample iff k < retries.
C1_RetryCount ==
    pc = "polled" =>
        /\ calls = Min(devK + 1, retries)
        /\ result.ok <=> devK < retries

\* C24: when poll_device returns, its log holds one WARNING record for each
\* failed attempt, in attempt order, each with the device id and the attempt
\* number, followed by one ERROR record iff every attempt failed; a poll
\* whose first attempt succeeds logs nothing.
C24_FailureReporting ==
    pc = "polled" =>
        LET failed == Min(devK, retries)
        IN  /\ Len(log_records) = failed + (IF devK >= retries THEN 1 ELSE 0)
            /\ \A i \in 1..failed :
                    log_records[i] =
                        [level |-> "WARNING", attempt |-> i, device_id |-> dev]
            /\ \A i \in failed + 1..Len(log_records) :
                    /\ log_records[i].level = "ERROR"
                    /\ log_records[i].device_id = dev
            /\ devK = 0 => log_records = <<>>

\* a poll of three attempts that all failed: three warnings, then the error
C24_Witness ==
    /\ pc = "polled" /\ retries = 3 /\ devK = 3
    /\ Len(log_records) = 4 /\ log_records[4].level = "ERROR"

\* the device fails twice, then answers: success after 3 requests
C1_Witness ==
    /\ pc = "polled" /\ retries = 3 /\ devK = 2 /\ calls = 3 /\ result.ok

----------------------------------------------------------------------------
(* p1_meter_reader.py *)

\* validate_data 198-203: every logged parameter is present and not null
\* (the answers enumerated differ in the import counter only)
validate_data(d) == d.imp.kind \notin {"absent", "null"}

\* ensure_table 184: UNIQUE (timestamp)
unique_timestamp(tbl, t) == \E r \in tbl : r.timestamp = t

P1Values(d) ==
    [ok |-> TRUE, import_kwh |-> Num(d.imp.v), export_kwh |-> NaN, gas_m3 |-> NaN]

\* main 226-227: ensure_postgresql_service
ensure_postgresql_service ==
    /\ prog = "p1" /\ pc = "start"
    /\ connAttempts' = 0
    /\ pc' = "p1_connect"
    /\ UNCHANGED <<liveVars, cfgVars, auxVars>>
    /\ UNCHANGED costVars
    /\ UNCHANGED <<polled, prog, once, RUNNING, exitReason, conn, txn, devicesTable,
                   readings, config, todo, now, cycles, startDevices,
                   upsertTried, dev, retries, data, result, calls, devK,
                   everPolled, lastInsert, diffVars>>

ensure_postgresql_service_failed ==
    /\ prog = "p1" /\ pc = "start"
    /\ pc' = "stopped"
    /\ exitReason' = "service"
    /\ UNCHANGED <<liveVars, cfgVars, auxVars>>
    /\ UNCHANGED costVars
    /\ UNCHANGED <<polled, prog, once, RUNNING, conn, txn, devicesTable, readings,
                   connAttempts, config, todo, now, cycles, startDevices,
                   upsertTried, dev, retries, data, result, calls, devK,
                   everPolled, lastInsert, diffVars>>

\* connect_db 140-149: an attempt succeeds (main 230-235 or 242)
connect_db ==
    /\ prog = "p1" /\ pc \in {"p1_connect", "p1_reconnect"}
    /\ connAttempts < P1MaxAttempts
    /\ connAttempts' = connAttempts + 1
    /\ conn' = "open"
    /\ txn' = "idle"
    /\ pc' = IF pc = "p1_connect" THEN "p1_loop" ELSE "p1_fetch"
    /\ UNCHANGED <<liveVars, cfgVars, auxVars>>
    /\ UNCHANGED costVars
    /\ UNCHANGED <<polled, prog, once, RUNNING, exitReason, devicesTable, readings,
                   config, todo, now, cycles, startDevices, upsertTried, dev,
                   retries, data, result, calls, devK, everPolled,
                   lastInsert, diffVars>>

\* connect_db 150-154: an attempt fails
connect_db_failed ==
    /\ prog = "p1" /\ pc \in {"p1_connect", "p1_reconnect"}
    /\ connAttempts < P1MaxAttempts
    /\ connAttempts' = connAttempts + 1
    /\ UNCHANGED <<liveVars, cfgVars, auxVars>>
    /\ UNCHANGED costVars
    /\ UNCHANGED <<polled, prog, pc, once, RUNNING, exitReason, conn, txn,
                   devicesTable, readings, config, todo, now, cycles,
                   startDevices, upsertTried, dev, retries, data, result,
                   calls, devK, everPolled, lastInsert, diffVars>>

\* connect_db 155-156 returns None; main 231-233 or 243-245: sys.exit(1),
\* which the except Exception of main's loop does not catch
connect_db_gave_up ==
    /\ prog = "p1" /\ pc \in {"p1_connect", "p1_reconnect"}
    /\ connAttempts >= P1MaxAttempts
    /\ pc' = "stopped"
    /\ exitReason' = IF pc = "p1_connect" THEN "db_startup" ELSE "reconnect_failed"
    /\ UNCHANGED <<liveVars, cfgVars, auxVars>>
    /\ UNCHANGED costVars
    /\ UNCHANGED <<polled, prog, once, RUNNING, conn, txn, devicesTable, readings,
                   connAttempts, config, todo, now, cycles, startDevices,
                   upsertTried, dev, retries, data, result, calls, devK,
                   everPolled, lastInsert, diffVars>>

\* main 237-240: the connection is not closed
p1_cycle_start ==
    /\ prog = "p1" /\ pc = "p1_loop"
    /\ cycles < MaxCycles
    /\ conn # "closed"
    /\ cycles' = cycles + 1
    /\ lastInsert' = "none"
    /\ pc' = "p1_fetch"
    /\ UNCHANGED <<liveVars, cfgVars, auxVars>>
    /\ UNCHANGED costVars
    /\ UNCHANGED <<polled, prog, once, RUNNING, exitReason, conn, txn, devicesTable,
                   readings, connAttempts, config, todo, now, startDevices,
                   upsertTried, dev, retries, data, result, calls, devK,
                   everPolled, diffVars>>

\* main 240-242: conn.closed, reconnect
p1_conn_closed ==
    /\ prog = "p1" /\ pc = "p1_loop"
    /\ cycles < MaxCycles
    /\ conn = "closed"
    /\ cycles' = cycles + 1
    /\ lastInsert' = "none"
    /\ connAttempts' = 0
    /\ pc' = "p1_reconnect"
    /\ UNCHANGED <<liveVars, cfgVars, auxVars>>
    /\ UNCHANGED costVars
    /\ UNCHANGED <<polled, prog, once, RUNNING, exitReason, conn, txn, devicesTable,
                   readings, config, todo, now, startDevices, upsertTried,
                   dev, retries, data, result, calls, devK, everPolled,
                   diffVars>>

\* main 248-250, 258-261: the request or the JSON decoding raises
p1_fetch_failed ==
    /\ prog = "p1" /\ pc = "p1_fetch"
    /\ data' = HttpError
    /\ everPolled' = TRUE
    /\ pc' = "p1_sleep"
    /\ UNCHANGED <<liveVars, cfgVars, auxVars>>
    /\ UNCHANGED costVars
    /\ UNCHANGED <<polled, prog, once, RUNNING, exitReason, conn, txn, devicesTable,
                   readings, connAttempts, config, todo, now, cycles,
                   startDevices, upsertTried, dev, retries, result, calls,
                   devK, lastInsert, diffVars>>

\* main 253, 255-256: validate_data rejects the answer
p1_skip_invalid ==
    /\ prog = "p1" /\ pc = "p1_fetch"
    /\ \E d \in Answers :
        /\ d.http = "ok"
        /\ ~validate_data(d)
        /\ data' = d
    /\ everPolled' = TRUE
    /\ pc' = "p1_sleep"
    /\ UNCHANGED <<liveVars, cfgVars, auxVars>>
    /\ UNCHANGED costVars
    /\ UNCHANGED <<polled, prog, once, RUNNING, exitReason, conn, txn, devicesTable,
                   readings, connAttempts, config, todo, now, cycles,
                   startDevices, upsertTried, dev, retries, result, calls,
                   devK, lastInsert, diffVars>>

\* main 253-254, insert_data 207-215: the row is written and committed
insert_data ==
    /\ prog = "p1" /\ pc = "p1_fetch"
    /\ \E d \in Answers :
        /\ d.http = "ok"
        /\ validate_data(d)
        /\ d.imp.kind = "num"
        /\ data' = d
        /\ readings' = readings \cup {Reading(readings, "p1_meter", now, P1Values(d))}
    /\ conn = "open" /\ txn = "idle"
    /\ ~unique_timestamp(readings, now)
    /\ everPolled' = TRUE
    /\ lastInsert' = "ok"
    /\ pc' = "p1_sleep"
    /\ UNCHANGED <<liveVars, cfgVars, auxVars>>
    /\ UNCHANGED costVars
    /\ UNCHANGED <<polled, prog, once, RUNNING, exitReason, conn, txn, devicesTable,
                   connAttempts, config, todo, now, cycles, startDevices,
                   upsertTried, dev, retries, result, calls, devK, diffVars>>

\* insert_data 216-218: IntegrityError; warning and rollback
insert_data_duplicate ==
    /\ prog = "p1" /\ pc = "p1_fetch"
    /\ \E d \in Answers :
        /\ d.http = "ok"
        /\ validate_data(d)
        /\ d.imp.kind = "num"
        /\ data' = d
    /\ conn = "open" /\ txn = "idle"
    /\ unique_timestamp(readings, now)
    /\ txn' = "idle"
    /\ everPolled' = TRUE
    /\ lastInsert' = "duplicate"
    /\ pc' = "p1_sleep"
    /\ UNCHANGED <<liveVars, cfgVars, auxVars>>
    /\ UNCHANGED costVars
    /\ UNCHANGED <<polled, prog, once, RUNNING, exitReason, conn, devicesTable,
                   readings, connAttempts, config, todo, now, cycles,
                   startDevices, upsertTried, dev, retries, result, calls,
                   devK, diffVars>>

\* insert_data 219-221: any other error (a value NUMERIC rejects, a failed
\* transaction, some other store error, or the server is gone, which closes
\* the connection); on an open connection the rollback ends the transaction,
\* on a closed one it raises into main 262-263
insert_data_error ==
    /\ prog = "p1" /\ pc = "p1_fetch"
    /\ \E d \in Answers :
        /\ d.http = "ok"
        /\ validate_data(d)
        /\ data' = d
    /\ \E c \in (IF conn = "open" THEN {"open", "closed"} ELSE {"closed"}) :
        conn' = c
    /\ txn' = "idle"
    /\ everPolled' = TRUE
    /\ lastInsert' = "error"
    /\ pc' = "p1_sleep"
    /\ UNCHANGED <<liveVars, cfgVars, auxVars>>
    /\ UNCHANGED costVars
    /\ UNCHANGED <<polled, prog, once, RUNNING, exitReason, devicesTable, readings,
                   connAttempts, config, todo, now, cycles, startDevices,
                   upsertTried, dev, retries, result, calls, devK, diffVars>>

\* main 265: time.sleep returns; the clock has moved on by a tick, or not
p1_sleep ==
    /\ prog = "p1" /\ pc = "p1_sleep"
    /\ \E t \in {now, now + 1} : now' = t
    /\ pc' = "p1_loop"
    /\ UNCHANGED <<liveVars, cfgVars, auxVars>>
    /\ UNCHANGED costVars
    /\ UNCHANGED <<polled, prog, once, RUNNING, exitReason, conn, txn, devicesTable,
                   readings, connAttempts, config, todo, cycles,
                   startDevices, upsertTried, dev, retries, data, result,
                   calls, devK, everPolled, lastInsert, diffVars>>

\* signal_handler 127-132: close the connection, sys.exit(0), wherever the
\* program is
signal_handler ==
    /\ prog = "p1" /\ Alive
    /\ conn' = IF conn = "open" THEN "closed" ELSE conn
    /\ pc' = "stopped"
    /\ exitReason' = "signal"
    /\ UNCHANGED <<liveVars, cfgVars, auxVars>>
    /\ UNCHANGED costVars
    /\ UNCHANGED <<polled, prog, once, RUNNING, txn, devicesTable, readings,
                   connAttempts, config, todo, now, cycles, startDevices,
                   upsertTried, dev, retries, data, result, calls, devK,
                   everPolled, lastInsert, diffVars>>

P1Next ==
    \/ ensure_postgresql_service \/ ensure_postgresql_service_failed
    \/ connect_db \/ connect_db_failed \/ connect_db_gave_up
    \/ p1_cycle_start \/ p1_conn_closed
    \/ p1_fetch_failed \/ p1_skip_invalid
    \/ insert_data \/ insert_data_duplicate \/ insert_data_error
    \/ p1_sleep \/ signal_handler

----------------------------------------------------------------------------
(* Spec: one of the two programs runs *)

Init ==
    /\ DiffIdle
    /\ LiveIdle
    /\ CfgIdle
    /\ AuxIdle
    /\ CostIdle
    /\ prog \in {"logger", "p1"}
    /\ pc = "start"
    /\ once \in (IF prog = "logger" THEN BOOLEAN ELSE {FALSE})
    /\ RUNNING = TRUE
    /\ exitReason = "" /\ conn = "none" /\ txn = "idle"
    /\ devicesTable = {} /\ readings = {} /\ connAttempts = 0
    /\ config \in (IF prog = "logger" THEN Configs ELSE {<<>>})
    /\ todo = <<>> /\ now = 0 /\ cycles = 0
    /\ startDevices = DOMAIN config /\ upsertTried = {}
    /\ dev = "main_meter" /\ retries = Retries
    /\ data = NoData /\ result = AllRetriesFailed
    /\ calls = 0 /\ devK = 0 /\ everPolled = FALSE /\ lastInsert = "none"
    /\ polled = {}

Next == LoggerNext \/ P1Next

Spec == Init /\ [][Next]_vars

----------------------------------------------------------------------------
(* Claims about the two pollers *)

\* C2: when a cycle is over, every active device of its configuration has
\* been polled, except a device whose own error ended the cycle; and a device
\* whose poll returned a value and whose INSERT did not raise has its row in
\* readings.
C2_DeviceIsolation ==
    (prog = "logger" /\ cycles > 0) =>
        /\ pc \in {"sleep", "loop", "stopped"} =>
            \A i \in 2..Len(todo) : ~config[todo[i]].active
        /\ (pc = "cycle" /\ HasValue(result) /\ lastInsert # "error") =>
            \E r \in readings : r.device_id = dev /\ r.timestamp = now

\* C3: the logger never ends because of an error raised while it handles
\* one device.
C3_NoDeviceErrorEndsProcess ==
    prog = "logger" => exitReason # "device_error"

\* C7: a poll that returns a sample has parsed an answer in which the field
\* of every supported metric is a number; p1_meter_reader stores a row only
\* from such an answer.
C7_MalformedIsPollError ==
    /\ (prog = "logger" /\ pc = "cycle" /\ result.ok) =>
        \A m \in config[dev].supports : FieldOf(data, m).kind = "num"
    /\ (prog = "p1" /\ lastInsert = "ok") => data.imp.kind = "num"

\* C8: readings never holds two rows with the same device id and timestamp.
C8_InsertIdempotent ==
    \A r1 \in readings : \A r2 \in readings :
        (r1.device_id = r2.device_id /\ r1.timestamp = r2.timestamp)
            => r1 = r2

\* C9: neither program ends because the storage connection was found closed
\* at the start of a cycle.
C9_ConnectionLossRecoverable ==
    exitReason \notin {"conn_closed", "reconnect_failed"}

\* C10 as stated: no device is polled before every device of the startup
\* configuration has its row in devices.
C10_AllDevicesStored ==
    (prog = "logger" /\ everPolled) => startDevices \subseteq devicesTable

\* C10: no device is polled before the connection is open and upsert_device
\* has run for every device of the startup configuration; when the
\* connection cannot be opened (one attempt in scripts/logger.py, exactly
\* max_attempts in connect_db), the program stops without a poll or a row.
C10_StartupOrdering ==
    /\ everPolled =>
        /\ conn # "none"
        /\ startDevices \subseteq upsertTried
    /\ exitReason = "db_startup" =>
        /\ pc = "stopped"
        /\ ~everPolled
        /\ readings = {}
        /\ conn = "none"
        /\ connAttempts = (IF prog = "p1" THEN P1MaxAttempts ELSE 1)

\* both devices were upserted at startup, then one was polled
C10_Witness ==
    /\ prog = "logger" /\ everPolled
    /\ startDevices = DeviceIds /\ upsertTried = DeviceIds

\* main 193-195: the devices of a configuration the for loop does not skip
ActiveDevices(cfg) == {d \in DOMAIN cfg : cfg[d].active}

\* a cycle of the logger has begun and is over: main sleeps, is back at the
\* while test, or the process has ended
CycleOver == prog = "logger" /\ cycles > 0 /\ pc \in {"sleep", "loop", "stopped"}

\* C11: only devices active in the configuration read at the start of the
\* cycle are polled in it, and when the cycle is over exactly those have
\* been polled.
C11_ConfigTakesEffect ==
    (prog = "logger" /\ cycles > 0) =>
        /\ polled \subseteq ActiveDevices(config)
        /\ CycleOver => polled = ActiveDevices(config)

\* C12: the process ends for a signal only between cycles, never while a
\* cycle is in flight, and then with the connection closed; once the signal
\* has been received no further cycle starts.
C12_ShutdownCompletesCycle ==
    [][ /\ (exitReason = "" /\ exitReason' = "signal") =>
            /\ pc \notin {"cycle", "p1_fetch", "p1_reconnect"}
            /\ conn' # "open"
        /\ (prog = "logger" /\ ~RUNNING) => cycles' = cycles ]_vars

C16_SuccessfulPollStored ==
    (prog = "logger" /\ pc = "cycle" /\ dev \in polled /\ result.ok
        /\ lastInsert # "error") =>
        LET mine == {r \in readings :
                        r.device_id = dev /\ r.timestamp = now}
        IN  /\ Cardinality(mine) = 1
            /\ \A r \in mine : PositiveCounter(r)

\* C17: whenever main runs insert_reading for a device, upsert_device has
\* been called for that device and the devices table has its row; and no
\* step of the scheduler removes a row from the devices table.
C17_MetadataFollowsConfig ==
    [][ /\ (prog = "logger" /\ pc = "cycle" /\ todo # <<>>
              /\ todo' = Tail(todo) /\ lastInsert' # "none") =>
              /\ Head(todo) \in upsertTried
              /\ Head(todo) \in devicesTable
        /\ devicesTable \subseteq devicesTable' ]_vars

\* C21: once the signal has been received (RUNNING is false) the logger
\* sends no request to any further device, and the sleep that ends the cycle
\* returns at once.
C21_CancelBeforeNextPoll ==
    [][ (prog = "logger" /\ ~RUNNING) =>
            /\ polled' = polled
            /\ (pc = "sleep" /\ pc' = "loop") => now' = now ]_vars

\* The control state of the logger: Stopped once the process has ended,
\* ShuttingDown from the signal on, Polling inside a cycle, Sleeping from the
\* end of a cycle to the start of the next, Idle before the first cycle.
PhaseOf(p, running, n) ==
    IF p = "stopped" THEN "Stopped"
    ELSE IF ~running THEN "ShuttingDown"
    ELSE IF p = "cycle" THEN "Polling"
    ELSE IF p = "sleep" \/ (p = "loop" /\ n > 0) THEN "Sleeping"
    ELSE "Idle"

PhaseEdges ==
    {<<"Idle", "Polling">>, <<"Polling", "Sleeping">>,
     <<"Sleeping", "Polling">>, <<"ShuttingDown", "Stopped">>}
    \cup {<<x, "ShuttingDown">> : x \in {"Idle", "Polling", "Sleeping"}}

\* a step of the logger that changes the control state follows an edge of the
\* state machine, or ends the process from a running state
PhaseStepAllowed ==
    \/ PhaseOf(pc', RUNNING', cycles') = PhaseOf(pc, RUNNING, cycles)
    \/ <<PhaseOf(pc, RUNNING, cycles), PhaseOf(pc', RUNNING', cycles')>>
            \in PhaseEdges
    \/ pc # "stopped" /\ pc' = "stopped"

\* nothing happens once the process has ended
StoppedIsTerminal ==
    pc = "stopped" =>
        /\ pc' = "stopped"
        /\ UNCHANGED <<polled, everPolled, readings, now, cycles>>

C25_FailedPollLeavesGap ==
    [][ (prog = "logger" /\ pc = "cycle" /\ todo # <<>>
            /\ todo' = Tail(todo) /\ Head(todo) \in polled'
            /\ ~result'.ok) =>
            /\ readings' = readings
            /\ lastInsert' = "none" ]_vars

\* in the second cycle every attempt to poll a device failed, and the row
\* the first cycle stored for it is still the only one
C25_Witness ==
    /\ prog = "logger" /\ pc = "cycle" /\ cycles = 2
    /\ dev \in polled /\ ~result.ok /\ lastInsert = "none"
    /\ Cardinality({r \in readings : r.device_id = dev}) = 1

\* the non-negative diff of row i of the query result, for one counter
NonNegDelta(c, i) ==
    IF i = 1 \/ IsNaN(rows[i][c]) \/ IsNaN(rows[i-1][c]) THEN 0
    ELSE Max(0, Val(rows[i][c]) - Val(rows[i-1][c]))

\* row i falls in the bin labelled l
InBin(i, l) ==
    IF ClosedLeft(view_selected)
    THEN l <= rows[i].ts /\ rows[i].ts < l + BucketTicks
    ELSE l - BucketTicks < rows[i].ts /\ rows[i].ts <= l

BinDelta(c, l) ==
    SumSeq([i \in 1..Len(rows) |->
               Num(IF InBin(i, l) THEN NonNegDelta(c, i) ELSE 0)])

----------------------------------------------------------------------------
(* SpecLive: the rolling window of the two live power pages *)

\* firings of the page's timer in a run of SpecLive
MaxAppends == 3
\* how many ticks after the timer fired the clock is read for the sample, at
\* most: the timer runs in the browser, the clock is read when the request
\* (live_power.py) or the answer (power_monitor.py) arrives
MaxJitter == 2

\* the clock is read on time or MaxJitter ticks late
Jitters == {0, MaxJitter}

\* Math.ceil(a / b)
Ceil(a, b) == (a + b - 1) \div b

\* the window and the interval a page is configured with: an interval longer
\* than the jitter and one fetch, a window of two intervals or a tick more
LiveSettings ==
    LET i == MaxJitter + 2
    IN  {[window |-> w, interval |-> i] : w \in {2 * i, 2 * i + 1}}

Sample(t, d) == [ts |-> t, device_id |-> d]

\* the one meter power_monitor.py polls
P1Meter == "main_meter"

\* _fetch_live_power: one clock reading for the round, one row for each
\* active device that answered, in the order of the configuration
fetch_live_power(current_time, ans) ==
    LET got == SelectSeq(DeviceOrder, LAMBDA d : d \in ans)
    IN  [i \in 1..Len(got) |-> Sample(current_time, got[i])]

\* the trim with the sample that is exactly one window old dropped as well
trim_by_age_strict(s, cutoff) == SelectSeq(s, LAMBDA r : r.ts > cutoff)

\* df[df["ts"] >= cutoff_time], powerData.filter(p => p.msTimestamp >= cutoff)
trim_by_age(s, cutoff) == SelectSeq(s, LAMBDA r : r.ts >= cutoff)

\* if (powerData.length > maxPoints) powerData.shift()
limit_to_max_points(s, n) == IF Len(s) > n THEN Tail(s) ELSE s

RECURSIVE sort_insert(_, _)
sort_insert(r, s) ==
    IF s = <<>> \/ r.ts <= Head(s).ts THEN <<r>> \o s
    ELSE <<Head(s)>> \o sort_insert(r, Tail(s))

\* sort_values("ts"): a stable sort
RECURSIVE sort_values(_)
sort_values(s) ==
    IF s = <<>> THEN <<>> ELSE sort_insert(Head(s), sort_values(Tail(s)))

\* _render_live_graph's traces: for each device of the (filtered) store, its
\* rows sorted by ts; no trace at all for an empty store
Traces(store, device) ==
    LET shown == IF device = "all" THEN store
                 ELSE SelectSeq(store, LAMBDA r : r.device_id = device)
        devices == {shown[i].device_id : i \in 1..Len(shown)}
    IN  [d \in devices |->
            sort_values(SelectSeq(shown, LAMBDA r : r.device_id = d))]

InitLive ==
    /\ DiffIdle
    /\ SchedIdle
    /\ CostIdle
    /\ CfgIdle
    /\ AuxIdle
    /\ page \in {"dash", "pm"}
    /\ \E s \in LiveSettings :
        /\ observationWindow = s.window
        /\ pollingFrequency = s.interval
        /\ maxPoints = IF page = "pm" THEN Ceil(s.window, s.interval) ELSE 0
    /\ fire = 0 /\ lpc = "idle"
    /\ existing_data = <<>> /\ live_df = <<>> /\ cutoff_clock = 0
    /\ live_store = <<>> /\ powerData = <<>> /\ figure = <<>>
    /\ rounds = 0 /\ roundsDone = 0 /\ answered = {}
    /\ renderedAt = "never"

\* when the timer fires next: the first call is made when the page loads
NextFire == IF rounds = 0 THEN 0 ELSE fire + pollingFrequency

\* dcc.Interval fires and Dash calls _update_live_data with the store's data
\* as its State argument
live_power_interval ==
    /\ page = "dash" /\ lpc = "idle"
    /\ rounds < MaxAppends
    /\ fire' = NextFire
    /\ rounds' = rounds + 1
    /\ existing_data' = live_store
    /\ lpc' = "fetch"
    /\ UNCHANGED <<page, observationWindow, pollingFrequency, maxPoints,
                   live_df, cutoff_clock, live_store, powerData, figure,
                   roundsDone, answered>>
    /\ UNCHANGED <<schedVars, diffVars, costVars, cfgVars, auxVars, renderedAt>>

\* the same steps on a buffer all callbacks share, appended to in place
update_live_data_concat_in_place ==
    /\ page = "dash" /\ lpc = "fetch"
    /\ \E j \in Jitters, ans \in SUBSET DeviceIds :
        /\ live_df' = existing_data \o fetch_live_power(fire + j, ans)
        /\ live_store' = live_df'
        /\ cutoff_clock' = fire + j + 1
        /\ answered' = ans
    /\ lpc' = "trim"
    /\ UNCHANGED <<page, observationWindow, pollingFrequency, maxPoints, fire,
                   existing_data, powerData, figure, rounds,
                   roundsDone>>
    /\ UNCHANGED <<schedVars, diffVars, costVars, cfgVars, auxVars, renderedAt>>

\* _update_live_data 141-149: the new rows are fetched and appended to a copy
\* of the rows it was given; the fetch takes a tick
update_live_data_concat ==
    /\ page = "dash" /\ lpc = "fetch"
    /\ \E j \in Jitters, ans \in SUBSET DeviceIds :
        /\ live_df' = existing_data \o fetch_live_power(fire + j, ans)
        /\ cutoff_clock' = fire + j + 1
        /\ answered' = ans
    /\ lpc' = "trim"
    /\ UNCHANGED <<page, observationWindow, pollingFrequency, maxPoints, fire,
                   existing_data, live_store, powerData, figure, rounds,
                   roundsDone>>
    /\ UNCHANGED <<schedVars, diffVars, costVars, cfgVars, auxVars, renderedAt>>

\* _update_live_data 146, 159: the fetch raises what neither _fetch_api_data
\* nor _fetch_live_power catches (a device answers with JSON that is no
\* object: api_data.get is an AttributeError); the clock is read again for
\* the "Last Updated" text
update_live_data_raises ==
    /\ page = "dash" /\ lpc = "fetch"
    /\ lpc' = "except"
    /\ answered' = {}
    /\ \E j \in Jitters : cutoff_clock' = fire + j + 1
    /\ UNCHANGED <<page, observationWindow, pollingFrequency, maxPoints, fire,
                   existing_data, live_df, live_store, powerData, figure,
                   rounds, roundsDone>>
    /\ UNCHANGED <<schedVars, diffVars, costVars, cfgVars, auxVars, renderedAt>>

\* an except clause that returns an empty history
update_live_data_except_clears ==
    /\ page = "dash" /\ lpc = "except"
    /\ live_store' = <<>>
    /\ lpc' = "idle"
    /\ roundsDone' = roundsDone + 1
    /\ UNCHANGED <<page, observationWindow, pollingFrequency, maxPoints, fire,
                   existing_data, live_df, cutoff_clock, powerData, figure,
                   rounds, answered>>
    /\ UNCHANGED <<schedVars, diffVars, costVars, cfgVars, auxVars, renderedAt>>

\* _update_live_data 159-162: the rows it was given are returned as they are
update_live_data_except ==
    /\ page = "dash" /\ lpc = "except"
    /\ live_store' = existing_data
    /\ lpc' = "idle"
    /\ roundsDone' = roundsDone + 1
    /\ UNCHANGED <<page, observationWindow, pollingFrequency, maxPoints, fire,
                   existing_data, live_df, cutoff_clock, powerData, figure,
                   rounds, answered>>
    /\ UNCHANGED <<schedVars, diffVars, costVars, cfgVars, auxVars, renderedAt>>

\* _update_live_data 152-153: rows older than the window are dropped
update_live_data_trim ==
    /\ page = "dash" /\ lpc = "trim"
    /\ live_df' = trim_by_age(live_df, cutoff_clock - observationWindow)
    /\ lpc' = "return"
    /\ UNCHANGED <<page, observationWindow, pollingFrequency, maxPoints, fire,
                   existing_data, cutoff_clock, live_store, powerData, figure,
                   rounds, roundsDone, answered>>
    /\ UNCHANGED <<schedVars, diffVars, costVars, cfgVars, auxVars, renderedAt>>

\* _update_live_data 158: the returned rows become the store's data
update_live_data_return ==
    /\ page = "dash" /\ lpc = "return"
    /\ live_store' = live_df
    /\ lpc' = "idle"
    /\ roundsDone' = roundsDone + 1
    /\ UNCHANGED <<page, observationWindow, pollingFrequency, maxPoints, fire,
                   existing_data, live_df, cutoff_clock, powerData, figure,
                   rounds, answered>>
    /\ UNCHANGED <<schedVars, diffVars, costVars, cfgVars, auxVars, renderedAt>>

\* _render_live_graph, called with the store's data when it changed or when
\* the user picks a device
render_live_graph ==
    /\ page = "dash"
    /\ \E device \in {"all"} \cup DeviceIds :
        figure' = Traces(live_store, device)
    /\ renderedAt' = lpc
    /\ UNCHANGED <<page, observationWindow, pollingFrequency, maxPoints, fire,
                   lpc, existing_data, live_df, cutoff_clock, live_store,
                   powerData, rounds, roundsDone, answered>>
    /\ UNCHANGED <<schedVars, diffVars, costVars, cfgVars, auxVars>>

\* updateChart, the answer carrying a reading: one clock reading stamps the
\* sample, the next (the same tick) gives the cutoff
updateChart ==
    /\ page = "pm"
    /\ rounds < MaxAppends
    /\ fire' = NextFire
    /\ \E j \in Jitters :
        LET msTimestamp == fire' + j
            cutoff == msTimestamp - observationWindow
        IN  /\ powerData' = limit_to_max_points(
                    trim_by_age(Append(powerData,
                                       Sample(msTimestamp, P1Meter)), cutoff),
                    maxPoints)
            /\ cutoff_clock' = msTimestamp
    /\ answered' = {P1Meter}
    /\ rounds' = rounds + 1
    /\ roundsDone' = roundsDone + 1
    /\ UNCHANGED <<page, observationWindow, pollingFrequency, maxPoints, lpc,
                   existing_data, live_df, live_store, figure>>
    /\ UNCHANGED <<schedVars, diffVars, costVars, cfgVars, auxVars, renderedAt>>

\* updateChart, the answer invalid or the request failed: the array is left
\* as it is
updateChart_invalid ==
    /\ page = "pm"
    /\ rounds < MaxAppends
    /\ fire' = NextFire
    /\ \E j \in Jitters : cutoff_clock' = fire' + j
    /\ answered' = {}
    /\ rounds' = rounds + 1
    /\ roundsDone' = roundsDone + 1
    /\ UNCHANGED <<page, observationWindow, pollingFrequency, maxPoints, lpc,
                   existing_data, live_df, live_store, powerData, figure>>
    /\ UNCHANGED <<schedVars, diffVars, costVars, cfgVars, auxVars, renderedAt>>

NextLive ==
    \/ live_power_interval \/ update_live_data_concat
    \/ update_live_data_raises \/ update_live_data_except
    \/ update_live_data_trim \/ update_live_data_return
    \/ render_live_graph
    \/ updateChart \/ updateChart_invalid

SpecLive == InitLive /\ [][NextLive]_vars

\* the buffer of the page that runs
LiveBuffer == IF page = "pm" THEN powerData ELSE live_store

CountOf(s, d) == Len(SelectSeq(s, LAMBDA r : r.device_id = d))

\* C14: with a window W and an interval I, the buffer of a live page never
\* holds more than ceil(W / I) samples of one device.
C14_SizeBound ==
    page # "none" =>
        \A d \in DeviceIds :
            CountOf(LiveBuffer, d) <= Ceil(observationWindow, pollingFrequency)

SamplesOf(s) == {s[i] : i \in 1..Len(s)}

\* C15: when a round of the page's timer ends, whether or not a device
\* answered in it, the buffer holds no sample older than the window at the
\* clock reading of that round, and the samples the round removed are all
\* older than that: eviction is by age and by nothing else.
C15_AgeBound ==
    [][ roundsDone' = roundsDone + 1 =>
            LET oldest == cutoff_clock' - observationWindow
                before == SamplesOf(LiveBuffer)
                after == SamplesOf(LiveBuffer')
            IN  /\ \A r \in after : r.ts >= oldest
                /\ \A r \in before \ after : r.ts < oldest ]_vars

\* C15 (amended): a round in which a device answered leaves no sample older
\* than the window at the clock reading of that round. The Dash store is
\* trimmed in every round that does not raise, answered or not, and loses
\* only samples older than the window; a round that raises leaves it as it
\* was. The array of power_monitor.py is left alone by a round
\* without a valid answer, and a round with one removes, besides the samples
\* older than the window, at most the one oldest sample, and that only when
\* more than maxPoints would remain.
C15_AgeBoundPerPage ==
    [][ roundsDone' = roundsDone + 1 =>
            LET oldest == cutoff_clock' - observationWindow
                before == SamplesOf(LiveBuffer)
                after == SamplesOf(LiveBuffer')
                byCount == {r \in before \ after : r.ts >= oldest}
            IN  /\ answered' # {} => \A r \in after : r.ts >= oldest
                /\ (page = "dash" /\ lpc # "except") =>
                    /\ \A r \in after : r.ts >= oldest
                    /\ byCount = {}
                /\ (page = "dash" /\ lpc = "except") =>
                    live_store' = live_store
                /\ (page = "pm" /\ answered' = {}) => powerData' = powerData
                /\ (page = "pm" /\ answered' # {}) =>
                    /\ Cardinality(byCount) <= 1
                    /\ byCount # {} =>
                        /\ Len(powerData') = maxPoints
                        /\ \A r \in after : \A q \in byCount : q.ts < r.ts
       ]_vars

\* a round of the Dash page in which no device answered has ended, and a
\* sample it was given is gone from the store
C15_Witness ==
    /\ page = "dash" /\ lpc = "idle" /\ roundsDone > 0
    /\ answered = {}
    /\ \E r \in SamplesOf(existing_data) : r \notin SamplesOf(live_store)

SortedByTs(s) == \A i \in 1..Len(s) - 1 : s[i].ts <= s[i + 1].ts

\* the store as the last finished append left it: while an append is in
\* progress, the rows that append was given
Committed == IF lpc = "idle" THEN live_store ELSE existing_data

\* C20: whenever _render_live_graph runs, also between the steps of an
\* append, each trace it draws is sorted by timestamp and holds exactly the
\* rows of its device in the store as it was before the running append (or
\* after the last one, when none is running), and the devices drawn are all
\* devices of that store or the one selected.
C20_SnapshotSafe ==
    [][ (page = "dash" /\ <<figure, renderedAt>>' # <<figure, renderedAt>>) =>
            LET present == {r.device_id : r \in SamplesOf(Committed)}
            IN  /\ \/ DOMAIN figure' = present
                   \/ \E d \in DeviceIds : DOMAIN figure' = present \cap {d}
                /\ \A d \in DOMAIN figure' :
                    /\ SortedByTs(figure'[d])
                    /\ Len(figure'[d]) = CountOf(Committed, d)
                    /\ SamplesOf(figure'[d]) =
                           {r \in SamplesOf(Committed) : r.device_id = d}
       ]_vars

\* the graph was drawn while an append was about to write back rows that
\* differ from the store, and shows the store
C20_Witness ==
    /\ page = "dash" /\ lpc = "return" /\ renderedAt = "return"
    /\ live_df # live_store
    /\ live_store # <<>>
    /\ figure = Traces(live_store, "all")

\* C27: a call of _update_live_data in which something raised returns
\* exactly the rows it was given; a call in which some device gave no sample
\* returns the rows it was given, in their order, less those older than the
\* window, followed only by new rows of devices that answered.
C27_FailureKeepsHistory ==
    [][ (page = "dash" /\ roundsDone' = roundsDone + 1) =>
            /\ lpc = "except" => live_store' = existing_data
            /\ (lpc = "return" /\ answered # DeviceIds) =>
                LET oldest == cutoff_clock - observationWindow
                    kept == SelectSeq(existing_data,
                                      LAMBDA r : r.ts >= oldest)
                    n == Len(kept)
                IN  /\ Len(live_store') >= n
                    /\ SubSeq(live_store', 1, n) = kept
                    /\ \A i \in n + 1..Len(live_store') :
                        /\ live_store'[i].device_id \in answered
                        /\ live_store'[i] \notin SamplesOf(existing_data)
       ]_vars

\* a call that was given rows raised (the graph was last drawn while its
\* except clause ran) and has returned: the store holds the rows it was given
C27_Witness ==
    /\ page = "dash" /\ lpc = "idle" /\ renderedAt = "except"
    /\ roundsDone = rounds /\ roundsDone >= 2
    /\ existing_data # <<>> /\ live_store = existing_data

----------------------------------------------------------------------------
(* SpecConfig: the scheduler's loads of the configuration file *)

\* number of reloads a run of SpecConfig makes
MaxReloads == 2

InitConfig ==
    /\ DiffIdle
    /\ LiveIdle
    /\ CostIdle
    /\ AuxIdle
    /\ prog = "config" /\ pc = "start" /\ once = FALSE /\ RUNNING = TRUE
    /\ exitReason = "" /\ conn = "none" /\ txn = "idle"
    /\ devicesTable = {} /\ readings = {} /\ connAttempts = 0
    /\ config = <<>> /\ todo = <<>> /\ now = 0 /\ cycles = 0
    /\ startDevices = {} /\ upsertTried = {}
    /\ dev = "main_meter" /\ retries = Retries
    /\ data = NoData /\ result = AllRetriesFailed
    /\ calls = 0 /\ devK = 0 /\ everPolled = FALSE /\ lastInsert = "none"
    /\ polled = {}
    /\ config_file \in ConfigFiles
    /\ environ \in Environments
    /\ loaded = NotLoaded

\* what main does with the outcome r of a load_config call: an exception
\* that escapes load_config ends the process, a configuration becomes the
\* one in force (config.get("devices", {}))
MainTakes(r) ==
    /\ loaded' = r
    /\ IF r.raised # ""
       THEN /\ pc' = "stopped"
            /\ exitReason' = "config_error"
            /\ UNCHANGED config
       ELSE /\ pc' = "loop"
            /\ config' = r.devices
            /\ UNCHANGED exitReason

\* main 169-173: the load at startup
main_load_config ==
    /\ prog = "config" /\ pc = "start"
    /\ MainTakes(load_config(config_file, environ))
    /\ UNCHANGED <<config_file, environ, cycles>>
    /\ UNCHANGED <<prog, once, RUNNING, dbVars, todo, now, startDevices,
                   upsertTried, pollVars, lastInsert>>
    /\ UNCHANGED <<diffVars, liveVars, costVars, auxVars>>

\* main 184-190: the reload at the start of a cycle; the file is whatever is
\* at config_path by then
main_reload_config ==
    /\ prog = "config" /\ pc = "loop" /\ RUNNING
    /\ cycles < MaxReloads
    /\ cycles' = cycles + 1
    /\ \E f \in ConfigFiles :
        /\ config_file' = f
        /\ MainTakes(load_config(f, environ))
    /\ UNCHANGED environ
    /\ UNCHANGED <<prog, once, RUNNING, dbVars, todo, now, startDevices,
                   upsertTried, pollVars, lastInsert>>
    /\ UNCHANGED <<diffVars, liveVars, costVars, auxVars>>

NextConfig == main_load_config \/ main_reload_config

SpecConfig == InitConfig /\ [][NextConfig]_vars

\* the states of the file in which the load fails
LoadFails(f) ==
    \/ f.kind # "json"
    \/ f.top # "object"
    \/ f.shape \notin {"absent", "object"}

\* C19: load_config returns, for every state of the configuration file, a
\* configuration whose database section has host, port, name, user and
\* password, and raises nothing; so no load ends the scheduler, and after a
\* load that failed the configuration in force is the documented defaults
\* (whose device set is empty), after one that succeeded the file's.
C19_LoadNeverFatal ==
    prog = "config" =>
        /\ exitReason = "" /\ pc # "stopped"
        /\ pc = "loop" =>
            /\ loaded.raised = ""
            /\ DOMAIN loaded.database = DbKeys
            /\ LoadFails(config_file) =>
                /\ loaded.handler # ""
                /\ loaded.database = DefaultDatabase(environ)
                /\ config = <<>>
            /\ ~LoadFails(config_file) =>
                /\ loaded.handler = ""
                /\ config = config_file.devices

\* a reload met a file whose database section is null, after an earlier
\* load had put a device in force: the scheduler is still in its loop
C19_Witness ==
    /\ prog = "config" /\ pc = "loop" /\ cycles = 2
    /\ config_file.kind = "json" /\ config_file.shape = "null"
    /\ config_file.devices # <<>>
    /\ loaded.handler = "Exception"
    /\ loaded.database["user"] = "env"
    /\ config = <<>>

----------------------------------------------------------------------------
(* SpecTime: when the cycles of the two polling loops start *)

\* longest time one device of the for loop takes (request, retries and the
\* one-second sleeps between them), in ticks
MaxLatency == 2
\* longest polling interval, in ticks
MaxInterval == 3

Latencies == 0..MaxLatency
Intervals == 1..MaxInterval

\* the devices a timed cycle visits
TimedDevices == {SubSeq(DeviceOrder, 1, n) : n \in 0..Len(DeviceOrder)}

InitTime ==
    /\ DiffIdle
    /\ LiveIdle
    /\ CostIdle
    /\ CfgIdle
    /\ prog \in {"logger", "p1"}
    /\ pc = "loop" /\ once = FALSE /\ RUNNING = TRUE
    /\ exitReason = "" /\ conn = "open" /\ txn = "idle"
    /\ devicesTable = {} /\ readings = {} /\ connAttempts = 0
    /\ config = <<>> /\ todo = <<>> /\ now = 0 /\ cycles = 0
    /\ startDevices = {} /\ upsertTried = {}
    /\ dev = "main_meter" /\ retries = Retries
    /\ data = NoData /\ result = AllRetriesFailed
    /\ calls = 0 /\ devK = 0 /\ everPolled = FALSE /\ lastInsert = "none"
    /\ polled = {}
    /\ tick_start = 0 /\ elapsed = 0 /\ slept = 0
    /\ poll_interval \in Intervals
    /\ LogIdle /\ OverlapIdle /\ FormIdle /\ MqttIdle

TimeFrame ==
    UNCHANGED <<prog, once, RUNNING, exitReason, dbVars, config,
                startDevices, upsertTried, pollVars, lastInsert, diffVars,
                liveVars, costVars, cfgVars, log_records, in_flight,
                formVars, mqttVars>>

\* main 184-190: tick_start = time.time(), the configuration is reloaded
\* and with it poll_interval
main_tick_start ==
    /\ prog = "logger" /\ pc = "loop"
    /\ cycles < MaxCycles
    /\ cycles' = cycles + 1
    /\ tick_start' = now
    /\ poll_interval' \in Intervals
    /\ todo' \in TimedDevices
    /\ pc' = "cycle"
    /\ UNCHANGED <<now, elapsed, slept>>
    /\ TimeFrame

\* main 193-198: one device of the for loop, its retries included
main_device_takes ==
    /\ prog = "logger" /\ pc = "cycle" /\ todo # <<>>
    /\ \E l \in Latencies : now' = now + l
    /\ todo' = Tail(todo)
    /\ UNCHANGED <<pc, cycles, timeVars>>
    /\ TimeFrame

\* main 203: time.sleep(max(0, poll_interval - (time.time() - tick_start)))
main_time_sleep ==
    /\ prog = "logger" /\ pc = "cycle" /\ todo = <<>>
    /\ elapsed' = now - tick_start
    /\ slept' = Max(0, poll_interval - elapsed')
    /\ now' = now + slept'
    /\ pc' = "loop"
    /\ UNCHANGED <<todo, cycles, tick_start, poll_interval>>
    /\ TimeFrame

\* p1_meter_reader main 237-263: one iteration of while True up to the sleep
p1_iteration ==
    /\ prog = "p1" /\ pc = "loop"
    /\ cycles < MaxCycles
    /\ cycles' = cycles + 1
    /\ tick_start' = now
    /\ \E l \in Latencies : now' = now + l
    /\ pc' = "cycle"
    /\ UNCHANGED <<todo, poll_interval, elapsed, slept>>
    /\ TimeFrame

\* p1_meter_reader main 265: time.sleep(INTERVAL_SECONDS)
p1_time_sleep ==
    /\ prog = "p1" /\ pc = "cycle"
    /\ elapsed' = now - tick_start
    /\ slept' = poll_interval
    /\ now' = now + slept'
    /\ pc' = "loop"
    /\ UNCHANGED <<todo, cycles, tick_start, poll_interval>>
    /\ TimeFrame

NextTime ==
    \/ main_tick_start \/ main_device_takes \/ main_time_sleep
    \/ p1_iteration \/ p1_time_sleep

SpecTime == InitTime /\ [][NextTime]_vars

\* C22: the sleep that ends a cycle lasts max(0, interval - elapsed), which
\* is never negative, elapsed being the time since the cycle started; and a
\* cycle that follows one whose elapsed time did not exceed the interval
\* starts exactly one interval after that one started.
C22_CycleTiming ==
    [][ /\ (pc = "cycle" /\ pc' = "loop") =>
            /\ slept' = Max(0, poll_interval - (now - tick_start))
            /\ slept' >= 0
            /\ now' = now + slept'
        /\ (pc = "loop" /\ pc' = "cycle" /\ cycles >= 1
                /\ elapsed <= poll_interval) =>
            tick_start' = tick_start + poll_interval ]_vars

----------------------------------------------------------------------------
(* SpecOverlap: calls of _update_live_data that overlap *)

\* A call that takes longer than the interval (each device that does not
\* answer costs the one-second timeout of _fetch_api_data) is still running
\* when dcc.Interval fires again; the server runs the calls in threads, and
\* each was given the store's data as it was when it was fired.
Call(fired, given) == [fired |-> fired, given |-> given]

InitOverlap ==
    /\ DiffIdle
    /\ SchedIdle
    /\ CostIdle
    /\ CfgIdle
    /\ AuxIdle
    /\ page = "dash"
    /\ \E s \in LiveSettings :
        /\ observationWindow = s.window
        /\ pollingFrequency = s.interval
    /\ maxPoints = 0
    /\ fire = 0 /\ lpc = "idle"
    /\ existing_data = <<>> /\ live_df = <<>> /\ cutoff_clock = 0
    /\ live_store = <<>> /\ powerData = <<>> /\ figure = <<>>
    /\ rounds = 0 /\ roundsDone = 0 /\ answered = {}
    /\ renderedAt = "never"

\* dcc.Interval fires and _update_live_data is called with the store's data
\* of that moment, whether or not earlier calls have returned
interval_fires ==
    /\ page = "dash"
    /\ rounds < MaxAppends
    /\ fire' = NextFire
    /\ rounds' = rounds + 1
    /\ in_flight' = in_flight \cup {Call(fire', live_store)}
    /\ UNCHANGED <<page, observationWindow, pollingFrequency, maxPoints, lpc,
                   existing_data, live_df, cutoff_clock, live_store,
                   powerData, figure, roundsDone, answered, renderedAt>>
    /\ UNCHANGED <<schedVars, diffVars, costVars, cfgVars, timeVars,
                   log_records, formVars, mqttVars>>

\* _update_live_data 141-158 of one of the running calls: its rows carry the
\* clock reading of its start (line 75), the cutoff is taken from the clock
\* when the fetch is over (152), and what it returns becomes the store's data
update_live_data_returns ==
    /\ page = "dash"
    /\ \E c \in in_flight, ans \in SUBSET DeviceIds :
        /\ existing_data' = c.given
        /\ cutoff_clock' = fire
        /\ live_df' = trim_by_age(c.given \o fetch_live_power(c.fired, ans),
                                  fire - observationWindow)
        /\ live_store' = live_df'
        /\ answered' = ans
        /\ in_flight' = in_flight \ {c}
    /\ roundsDone' = roundsDone + 1
    /\ UNCHANGED <<page, observationWindow, pollingFrequency, maxPoints, fire,
                   lpc, powerData, figure, rounds, renderedAt>>
    /\ UNCHANGED <<schedVars, diffVars, costVars, cfgVars, timeVars,
                   log_records, formVars, mqttVars>>

NextOverlap == interval_fires \/ update_live_data_returns

SpecOverlap == InitOverlap /\ [][NextOverlap]_vars

\* C26: when a call of _update_live_data returns, every sample of the store
\* (the data an earlier call returned) that is not older than the window is
\* in the data this call returns, whichever calls were running meanwhile.
C26_NoLostSample ==
    [][ roundsDone' = roundsDone + 1 =>
            \A r \in SamplesOf(live_store) :
                r.ts >= cutoff_clock' - observationWindow
                    => r \in SamplesOf(live_store') ]_vars

----------------------------------------------------------------------------
(* SpecForm: the power monitor page with its settings form *)

\* submissions of the form in a run of SpecForm
MaxSubmits == 2

\* the frequencies the form is submitted with (the page enforces a minimum)
FormFrequencies == {MaxJitter + 2, MaxJitter + 3}

\* what the form is submitted with
FormSettings ==
    {[window |-> w, interval |-> i] :
        w \in {s.window : s \in LiveSettings}, i \in FormFrequencies}

\* the script of the page has run: the settings and maxPoints are set, the
\* first updateChart() call (line 204) has pushed its sample, if the answer
\* carried one, and has set the first timeout
InitForm ==
    /\ DiffIdle
    /\ SchedIdle
    /\ CostIdle
    /\ CfgIdle
    /\ TimeIdle /\ LogIdle /\ OverlapIdle /\ MqttIdle
    /\ page = "pm"
    /\ \E s \in LiveSettings :
        /\ observationWindow = s.window
        /\ pollingFrequency = s.interval
        /\ maxPoints = Ceil(s.window, s.interval)
    /\ fire = 0 /\ lpc = "idle"
    /\ existing_data = <<>> /\ live_df = <<>> /\ cutoff_clock = 0
    /\ live_store = <<>> /\ figure = <<>>
    /\ powerData \in {<<>>, <<Sample(0, P1Meter)>>}
    /\ rounds = 0 /\ roundsDone = 0 /\ answered = {}
    /\ renderedAt = "never"
    /\ timers = <<pollingFrequency>> /\ submits = 0

\* s without its i-th element
RemoveAt(s, i) == SubSeq(s, 1, i - 1) \o SubSeq(s, i + 1, Len(s))

\* updateChart 137-200 called at clock t: the sample of a valid answer is
\* pushed, the array is trimmed by age and capped at maxPoints
UpdateChartAt(t, valid) ==
    IF valid
    THEN limit_to_max_points(
             trim_by_age(Append(powerData, Sample(t, P1Meter)),
                         t - observationWindow),
             maxPoints)
    ELSE powerData

FormFrame ==
    UNCHANGED <<page, lpc, existing_data, live_df, live_store, figure,
                renderedAt, schedVars, diffVars, costVars, cfgVars, timeVars,
                log_records, in_flight, mqttVars>>

\* a pending timeout is due: updateChart runs and, at line 200, sets the
\* next timeout
updateChart_timer ==
    /\ page = "pm"
    /\ rounds < MaxAppends
    /\ \E i \in 1..Len(timers) :
        /\ \A k \in 1..Len(timers) : timers[i] <= timers[k]
        /\ fire' = timers[i]
        /\ \E valid \in BOOLEAN :
            /\ powerData' = UpdateChartAt(timers[i], valid)
            /\ answered' = IF valid THEN {P1Meter} ELSE {}
        /\ cutoff_clock' = timers[i]
        /\ timers' = Append(RemoveAt(timers, i), timers[i] + pollingFrequency)
    /\ rounds' = rounds + 1
    /\ roundsDone' = roundsDone + 1
    /\ UNCHANGED <<observationWindow, pollingFrequency, maxPoints, submits>>
    /\ FormFrame

\* the submit handler 207-234: the settings are replaced, powerData is
\* cleared and updateChart() is called, which sets a timeout of its own; the
\* timeouts already pending stay, and maxPoints is a const of the page load
config_form_submit ==
    /\ page = "pm"
    /\ submits < MaxSubmits
    /\ submits' = submits + 1
    /\ \E s \in FormSettings, t \in {fire, fire + 1} :
        /\ \A k \in 1..Len(timers) : t <= timers[k]
        /\ observationWindow' = s.window
        /\ pollingFrequency' = Max(s.interval, 2)
        /\ fire' = t
        /\ cutoff_clock' = t
        /\ \E valid \in BOOLEAN :
            /\ powerData' =
                IF valid
                THEN limit_to_max_points(
                         trim_by_age(<<Sample(t, P1Meter)>>, t - s.window),
                         maxPoints)
                ELSE <<>>
            /\ answered' = IF valid THEN {P1Meter} ELSE {}
        /\ timers' = Append(timers, t + Max(s.interval, 2))
    /\ roundsDone' = roundsDone + 1
    /\ UNCHANGED <<maxPoints, rounds>>
    /\ FormFrame

NextForm == updateChart_timer \/ config_form_submit

SpecForm == InitForm /\ [][NextForm]_vars

\* C28: the page has at most one pending timeout, two samples of the buffer
\* are at least a polling period apart, and the cap on the buffer is the one
\* of the settings in force.
C28_SingleTimerChain ==
    page = "pm" =>
        /\ Len(timers) <= 1
        /\ \A i \in 1..Len(powerData) - 1 :
            powerData[i + 1].ts - powerData[i].ts >= pollingFrequency
        /\ maxPoints = Ceil(observationWindow, pollingFrequency)

----------------------------------------------------------------------------
(* SpecMqtt: the message callback of the MQTT logger (logger.py) *)

\* messages delivered in a run of SpecMqtt
MaxMessages == 3

\* the topics on_connect subscribes to (104-106), by their last segment
MqttTopics == {"main_meter", "kwh_meter", "energy_socket_1"}

\* what a message carries: a JSON object, bytes that are not UTF-8, text
\* that is not JSON, or JSON that is not an object (a list, a number, null)
MqttPayloads == {"object", "not_utf8", "not_json", "not_object"}

\* what the database does during the call: everything works, connect
\* raises, the INSERT raises, or the commit raises
MqttDatabase == {"ok", "connect_fails", "execute_fails", "commit_fails"}

\* on_message 116-147 for one message: whether line 126 opened a connection,
\* whether line 142 closed it, whether the row was committed, and the level
\* of the last record logged
on_message_result(payload, db) ==
    IF payload \in {"not_utf8", "not_json"}
    THEN \* 119 raises, 146 catches
         [opened |-> FALSE, closed |-> FALSE, inserted |-> FALSE,
          log |-> "ERROR"]
    ELSE IF db = "connect_fails"
    THEN \* 126 raises, 144 catches
         [opened |-> FALSE, closed |-> FALSE, inserted |-> FALSE,
          log |-> "ERROR"]
    ELSE IF payload = "not_object"
    THEN \* payload.get raises at 135, 146 catches; the lines 140-142 are
         \* skipped
         [opened |-> TRUE, closed |-> FALSE, inserted |-> FALSE,
          log |-> "ERROR"]
    ELSE IF db \in {"execute_fails", "commit_fails"}
    THEN \* 128 or 140 raises, 144 catches; the line 142 is skipped
         [opened |-> TRUE, closed |-> FALSE, inserted |-> FALSE,
          log |-> "ERROR"]
    ELSE [opened |-> TRUE, closed |-> TRUE, inserted |-> TRUE,
          log |-> "INFO"]

InitMqtt ==
    /\ DiffIdle
    /\ SchedIdle
    /\ LiveIdle
    /\ CostIdle
    /\ CfgIdle
    /\ AuxIdle

\* one message arrives and on_message runs to its end.  A connection the
\* call leaves open is referenced by the local conn only: whether the
\* interpreter finalises the object when the frame goes (reclaimed) or keeps
\* it is not in the code's hands.
on_message ==
    /\ mqtt_handled < MaxMessages
    /\ \E topic \in MqttTopics, payload \in MqttPayloads,
          db \in MqttDatabase, reclaimed \in BOOLEAN :
        LET o == on_message_result(payload, db)
        IN  /\ mqtt_conns' =
                IF o.opened /\ ~o.closed /\ ~reclaimed
                THEN mqtt_conns + 1 ELSE mqtt_conns
            /\ mqtt_readings' =
                IF o.inserted THEN Append(mqtt_readings, topic)
                ELSE mqtt_readings
            /\ mqtt_log' = o.log
    /\ mqtt_handled' = mqtt_handled + 1
    /\ UNCHANGED <<schedVars, diffVars, liveVars, costVars, cfgVars,
                   timeVars, log_records, in_flight, formVars>>

NextMqtt == on_message

SpecMqtt == InitMqtt /\ [][NextMqtt]_vars

\* C30: after any sequence of messages no connection that on_message opened
\* is still open, and every message was handled to the end: the callback
\* returned with an INFO or an ERROR record as its last one.
C30_ConnectionsClosed ==
    /\ mqtt_conns = 0
    /\ mqtt_handled > 0 => mqtt_log \in {"INFO", "ERROR"}

====
